---- MODULE Spec2Model ----
(***************************************************************************)
(* Model of the voxel ray tracer's host side (src/test_raytracer.py):      *)
(*   - the Step-Budget Simulator _shadow_step_budget, one action per loop  *)
(*     iteration (SpecBudget);                                             *)
(*   - the job handshake of _send_ray_job, one action per clock edge the   *)
(*     coroutine awaits (SpecSend);                                        *)
(*   - the render loop of test_render_image with that handshake and the    *)
(*     shadow query _is_shadowed_to_light (Spec);                          *)
(*   - RayJobDriver.send_job and send_jobs_batch of ray_job_driver.py with *)
(*     the fake job_done driver of the accelerator testbench, one action   *)
(*     per clock edge (SpecDriver);                                        *)
(*   - the encoder of rays_to_scene.py and its copies in the testbench:    *)
(*     the box resolver, the fixed-point conversion and the valid flag of  *)
(*     the job, applied to rays and values drawn by Init, with the two     *)
(*     parsers of the ray-job file and the lookup of the face normal       *)
(*     (SpecEncoder);                                                      *)
(*   - the shadow query _is_shadowed_to_light on its own: the encoder, the *)
(*     Step-Budget Simulator and the handshake in sequence (SpecShadow);   *)
(*   - VoxelLoader of src/voxel_loader.py, one action per clock edge the   *)
(*     coroutine awaits (SpecLoader).                                      *)
(***************************************************************************)
EXTENDS Integers, Sequences, FiniteSets, TLC

VARIABLES
    \* ---- _shadow_step_budget (src/test_raytracer.py:316-376) ----
    job,        \* the job dict handed to the simulator
    t_end_fx,   \* the target distance handed to the simulator
    ix, iy, iz, \* simulated voxel
    next_x, next_y, next_z,   \* simulated boundary accumulators
    steps,      \* counted steps
    iter,       \* iterations of "for _ in range(2048)" already started
    bpc,        \* position: "call" | "loop" | "ret" | "idle"
    prev,       \* snapshot of the locals when the last iteration started
    returns,    \* the values returned so far, oldest first
    job0,       \* the job dict as the caller built it
    \* ---- _send_ray_job (src/test_raytracer.py:596-661) ----
    dut,        \* the signals of the DUT the coroutine writes and reads
    snd,        \* the running call of _send_ray_job: position and locals
    sret,       \* what the last call of _send_ray_job returned
    calls,      \* calls of _send_ray_job made so far
    \* ---- test_render_image (src/test_raytracer.py:667-873) ----
    cfg,        \* what the module read at import: camera_light.json, light
    jobs,       \* the rows _parse_ray_jobs returned
    rnd,        \* the render coroutine: position, loop index, locals
    image,      \* the float framebuffer, <<py, px>> -> linear colour
    png,        \* the tone-mapped image handed to PIL, once written
    trips,      \* the round-trips started so far, oldest first
    writes,     \* the assignments to elements of the framebuffer so far
    \* ---- RayJobDriver (src/Raytracing_Accelerator_new/ray_job_driver.py)
    \*      and the tests that use it (src/Raytracing_Accelerator/
    \*      test_raytracer.py) ----
    jif,        \* the signals of ray_job_if the driver writes and reads
    drv,        \* the driver coroutine: position, loop index, locals
    countdown,  \* the fake job_done driver: started or not, its countdown
    batch,      \* the call under way, its results so far, its return value
    \* ---- the encoder: intersect_aabb, to_fixed, make_option_b_job
    \*      (src/Raytracing_Accelerator/rays_to_scene.py) and their copies
    \*      in src/test_raytracer.py ----
    args,       \* the arguments of the call
    retv,       \* what the call returned or raised
    \* ---- VoxelLoader (src/voxel_loader.py) ----
    lif,        \* the signals of scene_loader_if
    ldr         \* the loader coroutine: position, arguments, locals

bvars == <<job, t_end_fx, ix, iy, iz, next_x, next_y, next_z, steps, iter,
           bpc, prev, returns, job0>>

svars == <<dut, snd, sret, calls>>

rvars == <<cfg, jobs, rnd, image, png, trips, writes>>

dvars == <<jif, drv, countdown, batch>>

gvars == <<args, retv>>

lvars == <<lif, ldr>>

ovars == <<dvars, gvars, lvars>>

vars == <<bvars, svars, rvars, dvars, gvars, lvars>>

-----------------------------------------------------------------------------
\* Program constants.

\* "ix > 31", src/test_raytracer.py:370 (N - 1 for the 32^3 world).
GridMax == 31
\* "if steps >= 1023", src/test_raytracer.py:373.
StepCap == 1023
\* "for _ in range(2048)", src/test_raytracer.py:346.
IterCeiling == 2048

\* Bounds of the model.
MaxNext == 2      \* next_x, next_y, next_z of a job are drawn from 0..MaxNext
MaxInc == 1       \* inc_x, inc_y, inc_z of a job are drawn from 0..MaxInc
MaxTEnd == 3      \* t_end_fx is drawn from 0..MaxTEnd
Reruns == 2       \* how often the caller runs the simulator on the same job
\* The clock edges _send_ray_job waits for job_ready: "range(1000)" at
\* src/test_raytracer.py:616, scaled down; the handshake does not depend on
\* the length of the window.
ReadyWaitEdges == 2
\* The timeout_cycles the callers pass: 4000 at src/test_raytracer.py:596
\* and :145, scaled down the same way.
TimeoutCycles == 2
MaxCalls == 2     \* calls of _send_ray_job made by the stand-alone caller
MaxJobs == 2      \* rows of the ray-job file
\* "ready_timeout = 1000" at ray_job_driver.py:120 and the default
\* "timeout_cycles=10000" of send_job at :110, scaled down; the second
\* stays above the six cycles of the fake job_done driver.
ReadyTimeout == 2
DriverTimeout == 6
MaxBatch == 2     \* jobs handed to send_jobs_batch
Beyond == 1       \* origins beyond the far faces of the world box
MaxW == 3         \* wbits of the fixed-point format is drawn from 1..MaxW
MaxFrac == 2      \* frac of the fixed-point format is drawn from 0..MaxFrac
\* The format the jobs are encoded in: FIXED_W = 24 and FIXED_FRAC = 16 at
\* src/test_raytracer.py:160-161, with fewer fraction bits and the same
\* eight integer bits.
JobW == 10
JobFrac == 2
MaxLines == 2  \* a file handed to a parser has 0..MaxLines lines
MaxLoadLines == 2 \* a voxel file has 0..MaxLoadLines lines
MaxGrid == 2      \* grid_size of load_voxels_from_array is drawn from 0..MaxGrid

-----------------------------------------------------------------------------
\* _shadow_step_budget

\* The start voxels the simulator is run from: the lower corner, and a voxel
\* on the upper X face one voxel from the upper Y face.
StartVoxels == {<<0, 0, 0>>, <<GridMax, GridMax - 1, 16>>}

\* The jobs of the encoder (valid = 1) and its "valid: 0" result, which
\* carries no other key (src/test_raytracer.py:253).
ValidJobs ==
    { [valid |-> 1, ix0 |-> v[1], iy0 |-> v[2], iz0 |-> v[3],
       sx |-> s[1], sy |-> s[2], sz |-> s[3],
       next_x |-> n[1], next_y |-> n[2], next_z |-> n[3],
       inc_x |-> i[1], inc_y |-> i[2], inc_z |-> i[3],
       max_steps |-> 512] :
        v \in StartVoxels,
        s \in {0, 1} \X {0, 1} \X {0, 1},
        n \in (0..MaxNext) \X (0..MaxNext) \X (0..MaxNext),
        i \in (0..MaxInc) \X (0..MaxInc) \X (0..MaxInc) }

InvalidJob == [valid |-> 0]

\* job.get("valid", 0), line 323.
JobValid(j) == IF "valid" \in DOMAIN j THEN j.valid # 0 ELSE FALSE

\* lines 340-342: step_x = 1 if sx == 1 else -1.
StepOf(s) == IF s = 1 THEN 1 ELSE -1

\* lines 347-351: m = min(next_x, next_y, next_z).
MinNext(nx, ny, nz) ==
    LET m1 == IF ny < nx THEN ny ELSE nx
    IN  IF nz < m1 THEN nz ELSE m1

\* line 353: "if m >= int(t_end_fx): break".
TargetReached_Strict(m, tend) == m > tend
TargetReached(m, tend) == m >= tend

\* lines 357-365: the axis the step is taken on.
ChooseAxis_Strict(nx, ny, nz) ==
    IF nx < ny /\ nx < nz THEN "X"
    ELSE IF ny < nz THEN "Y"
    ELSE "Z"
ChooseAxis(nx, ny, nz) ==
    IF nx <= ny /\ nx <= nz THEN "X"
    ELSE IF ny <= nz THEN "Y"
    ELSE "Z"

\* line 370: the voxel left the world.
OutOfGrid_Late(x, y, z) ==
    x < -1 \/ x > GridMax + 1 \/ y < -1 \/ y > GridMax + 1
           \/ z < -1 \/ z > GridMax + 1
OutOfGrid(x, y, z) ==
    x < 0 \/ x > GridMax \/ y < 0 \/ y > GridMax \/ z < 0 \/ z > GridMax

\* The locals of a running call, as a record.
Locals ==
    [ix |-> ix, iy |-> iy, iz |-> iz,
     next_x |-> next_x, next_y |-> next_y, next_z |-> next_z,
     steps |-> steps, iter |-> iter]

\* lines 326-344: the locals as the loop finds them.
EntryLocals(j) ==
    [ix |-> j.ix0, iy |-> j.iy0, iz |-> j.iz0,
     next_x |-> j.next_x, next_y |-> j.next_y, next_z |-> j.next_z,
     steps |-> 0, iter |-> 0]

\* lines 346-374: one iteration of the loop on locals s of job j. "go" tells
\* whether the loop goes on to another iteration.
IterBody(s, j, tend) ==
    LET m == MinNext(s.next_x, s.next_y, s.next_z)
        a == ChooseAxis(s.next_x, s.next_y, s.next_z)
        t == [s EXCEPT
                !.ix = IF a = "X" THEN @ + StepOf(j.sx) ELSE @,
                !.next_x = IF a = "X" THEN @ + j.inc_x ELSE @,
                !.iy = IF a = "Y" THEN @ + StepOf(j.sy) ELSE @,
                !.next_y = IF a = "Y" THEN @ + j.inc_y ELSE @,
                !.iz = IF a = "Z" THEN @ + StepOf(j.sz) ELSE @,
                !.next_z = IF a = "Z" THEN @ + j.inc_z ELSE @,
                !.steps = @ + 1,
                !.iter = @ + 1]
    IN  IF TargetReached(m, tend)
        THEN [loc |-> [s EXCEPT !.iter = @ + 1], go |-> FALSE]
        ELSE [loc |-> t,
              go |-> /\ ~OutOfGrid(t.ix, t.iy, t.iz)
                     /\ t.steps < StepCap
                     /\ t.iter < IterCeiling]

\* The whole function, for its callers: lines 323-376.
RECURSIVE RunLoop(_, _, _)
RunLoop(s, j, tend) ==
    LET r == IterBody(s, j, tend)
    IN  IF r.go THEN RunLoop(r.loc, j, tend) ELSE r.loc.steps

ShadowStepBudget(j, tend) ==
    IF ~JobValid(j) THEN 0 ELSE RunLoop(EntryLocals(j), j, tend)


-----------------------------------------------------------------------------
\* _send_ray_job: the handshake with the oracle, one step per clock edge the
\* coroutine awaits. What the oracle shows at an edge (job_ready, ray_done,
\* the hit outputs) is the environment's choice.

\* The fields _send_ray_job drives (lines 629-641); px, py, valid stay behind.
BusFields ==
    {"ix0", "iy0", "iz0", "sx", "sy", "sz", "next_x", "next_y", "next_z",
     "inc_x", "inc_y", "inc_z", "max_steps"}

JobFields(j) == [f \in BusFields |-> j[f]]

\* What the oracle may show on ray_hit, hit_voxel_x/y/z, hit_face_id when it
\* raises ray_done: a miss, and hits on an interior voxel and on a voxel of
\* the world's upper Y face; hit_face_id is a 3-bit signal, 6 and 7 unused.
HitOutputs ==
    { [ray_hit |-> 0, hit_voxel |-> <<0, 0, 0>>, hit_face_id |-> 0],
      [ray_hit |-> 1, hit_voxel |-> <<10, 10, 10>>, hit_face_id |-> 3],
      [ray_hit |-> 1, hit_voxel |-> <<10, GridMax, 10>>, hit_face_id |-> 3],
      [ray_hit |-> 1, hit_voxel |-> <<10, GridMax, 10>>, hit_face_id |-> 7] }

\* lines 584-589, _reset_dut: the inputs the test bench drives after reset,
\* and outputs nobody has read yet.
DutAfterReset ==
    [job_valid |-> 0, bus |-> <<>>, job_ready |-> 0, ray_done |-> 0,
     ray_hit |-> 0, hit_voxel |-> <<0, 0, 0>>, hit_face_id |-> 0]

NoCall ==
    [pc |-> "idle", ready_wait_cycles |-> 0, done_wait_cycles |-> 0,
     timeout_cycles |-> 0, job |-> <<>>,
     edges |-> 0, valid_edges |-> 0, driven |-> FALSE,
     ready_at |-> 0, latch_at |-> 0, done_at |-> 0]

NoReturn == [set |-> FALSE]

SendIdle ==
    /\ dut = DutAfterReset
    /\ snd = NoCall
    /\ sret = NoReturn
    /\ calls = 0

\* lines 596-617: the call, up to its first "await RisingEdge(dut.clk)".
\* edges counts the clock edges the call has awaited, valid_edges those at
\* which job_valid was high; ready_at, latch_at, done_at are the edges at
\* which job_ready was sampled high, the job was latched, ray_done was
\* sampled high (0: not yet).
SendStart(j, tmo) ==
    [pc |-> "wait_ready", ready_wait_cycles |-> 0, done_wait_cycles |-> 0,
     timeout_cycles |-> tmo, job |-> j,
     edges |-> 0, valid_edges |-> 0, driven |-> FALSE,
     ready_at |-> 0, latch_at |-> 0, done_at |-> 0]

\* A clock edge passes for the call s: the DUT samples job_valid at it.
Edge(s, d) ==
    [s EXCEPT !.edges = @ + 1, !.valid_edges = @ + d.job_valid]

\* The result of a step: the call, the DUT, and ret: "no" while the call is
\* still running, else the value returned.
Step(s, d, ret) == [snd |-> s, dut |-> d, ret |-> ret]

\* lines 616-641: one edge of the wait for job_ready, which shows `ready`.
\* A wait that gives up one edge late.
ReadyStep_OneMore(s, d, ready) ==
    LET s1 == [Edge(s, d) EXCEPT !.ready_wait_cycles = @ + 1]
        d1 == [d EXCEPT !.job_ready = ready]
    IN  IF ready = 1
        THEN Step([s1 EXCEPT !.pc = "latch", !.driven = TRUE,
                             !.ready_at = s1.edges],
                  [d1 EXCEPT !.job_valid = 1, !.bus = JobFields(s.job)],
                  "no")
        ELSE IF s1.ready_wait_cycles = ReadyWaitEdges + 1
        THEN Step([s1 EXCEPT !.pc = "idle"], d1, "false")
        ELSE Step(s1, d1, "no")
ReadyStep(s, d, ready) ==
    LET s1 == [Edge(s, d) EXCEPT !.ready_wait_cycles = @ + 1]
        d1 == [d EXCEPT !.job_ready = ready]
    IN  IF ready = 1
        THEN Step([s1 EXCEPT !.pc = "latch", !.driven = TRUE,
                             !.ready_at = s1.edges],
                  [d1 EXCEPT !.job_valid = 1, !.bus = JobFields(s.job)],
                  "no")
        ELSE IF s1.ready_wait_cycles = ReadyWaitEdges
        THEN Step([s1 EXCEPT !.pc = "idle"], d1, "false")
        ELSE Step(s1, d1, "no")

\* lines 643-649: the edge that latches the job; job_valid is taken back.
\* "range(timeout_cycles)" of an empty range falls through to the timeout.
\* A latch that leaves job_valid high.
LatchStep_KeepsValid(s, d) ==
    LET s1 == [Edge(s, d) EXCEPT !.latch_at = Edge(s, d).edges]
    IN  IF s.timeout_cycles <= 0
        THEN Step([s1 EXCEPT !.pc = "idle"], d, "false")
        ELSE Step([s1 EXCEPT !.pc = "wait_done"], d, "no")
LatchStep(s, d) ==
    LET s1 == [Edge(s, d) EXCEPT !.latch_at = Edge(s, d).edges]
        d1 == [d EXCEPT !.job_valid = 0]
    IN  IF s.timeout_cycles <= 0
        THEN Step([s1 EXCEPT !.pc = "idle"], d1, "false")
        ELSE Step([s1 EXCEPT !.pc = "wait_done"], d1, "no")

\* lines 649-661: one edge of the wait for ray_done, which shows `done`. The
\* oracle is working on the job: at every edge of this wait its hit outputs
\* show `out`, whatever it is.
OracleShows(d, done, out) ==
    [d EXCEPT !.ray_done = done, !.ray_hit = out.ray_hit,
              !.hit_voxel = out.hit_voxel, !.hit_face_id = out.hit_face_id]

\* What the oracle may show at an edge of that wait: with ray_done, any of
\* its results; without, what it showed before or a voxel its traversal is
\* passing through.
OutputsOf(d) ==
    [ray_hit |-> d.ray_hit, hit_voxel |-> d.hit_voxel,
     hit_face_id |-> d.hit_face_id]

OracleOutputs(d, done) ==
    IF done = 1 THEN HitOutputs
    ELSE {OutputsOf(d),
          [ray_hit |-> 1, hit_voxel |-> <<10, GridMax, 10>>,
           hit_face_id |-> 3]}

\* A wait that reports success when it runs out.
DoneStep_TimeoutTrue(s, d, done, out) ==
    LET s1 == [Edge(s, d) EXCEPT !.done_wait_cycles = @ + 1]
        d1 == OracleShows(d, done, out)
    IN  IF done = 1
        THEN Step([s1 EXCEPT !.pc = "idle", !.done_at = s1.edges], d1, "true")
        ELSE IF s1.done_wait_cycles = s.timeout_cycles
        THEN Step([s1 EXCEPT !.pc = "idle"], d1, "true")
        ELSE Step(s1, d1, "no")
DoneStep(s, d, done, out) ==
    LET s1 == [Edge(s, d) EXCEPT !.done_wait_cycles = @ + 1]
        d1 == OracleShows(d, done, out)
    IN  IF done = 1
        THEN Step([s1 EXCEPT !.pc = "idle", !.done_at = s1.edges], d1, "true")
        ELSE IF s1.done_wait_cycles = s.timeout_cycles
        THEN Step([s1 EXCEPT !.pc = "idle"], d1, "false")
        ELSE Step(s1, d1, "no")

-----------------------------------------------------------------------------
\* test_render_image: the shading of one hit. The floats of the source are
\* carried as integers: positions in half voxels, the diffuse term and the
\* brightness in units of 1/10000.

\* AMBIENT = 0.12, src/test_raytracer.py:87, in units of 1/10000.
AmbientQ == 1200

\* ENABLE_SHADOWS, line 97.
ShadowsEnabled == TRUE

\* The fallback of _load_light_position, (16, 60, 5), line 74, in half voxels.
FallbackLight == <<32, 120, 10>>

\* FACE_NORMALS, lines 182-189; face id 0 is the first row.
\* A table that holds the step directions themselves.
FACE_NORMALS_Steps ==
    << <<1, 0, 0>>, <<-1, 0, 0>>, <<0, 1, 0>>, <<0, -1, 0>>, <<0, 0, 1>>,
       <<0, 0, -1>> >>
FACE_NORMALS ==
    << <<-1, 0, 0>>, <<1, 0, 0>>, <<0, -1, 0>>, <<0, 1, 0>>, <<0, 0, -1>>,
       <<0, 0, 1>> >>

\* line 786: fid = min(fid, 5).
ClampFaceId(fid) == IF fid < 5 THEN fid ELSE 5

\* line 789: addr = (z << 10) | (y << 5) | x, for 5-bit coordinates.
VoxelAddr(x, y, z) == z * 1024 + y * 32 + x

\* The colour memory _load_color_mem read: one voxel carries pure red, the
\* others carry nothing.
ColorMem(addr) == IF addr = VoxelAddr(10, 10, 10) THEN 63488 ELSE 0

\* lines 505-510, _rgb565_to_float3: the channels, as numerators over 31, 63
\* and 31; lines 794-795: neutral grey where no colour is stored.
BaseColor(rgb565) ==
    IF rgb565 = 0
    THEN [kind |-> "grey72"]
    ELSE [kind |-> "rgb565", r |-> (rgb565 \div 2048) % 32,
          g |-> (rgb565 \div 32) % 64, b |-> rgb565 % 32]

Dot(a, b) == a[1] * b[1] + a[2] * b[2] + a[3] * b[3]

Minus(a, b) == <<a[1] - b[1], a[2] - b[2], a[3] - b[3]>>

\* The integer square root, by bisection: the largest r in lo..hi with
\* r * r <= n.
RECURSIVE ISqrtIn(_, _, _)
ISqrtIn(n, lo, hi) ==
    IF lo = hi THEN lo
    ELSE LET mid == (lo + hi + 1) \div 2
         IN  IF mid * mid <= n THEN ISqrtIn(n, mid, hi)
             ELSE ISqrtIn(n, lo, mid - 1)

ISqrt(n) == ISqrtIn(n, 0, 46340)

\* lines 804-808: the point the light is evaluated at. Without
\* camera_light.json it is the voxel centre. With it, _hit_pos_on_voxel_face
\* (lines 407-471) returns the voxel centre (ray parallel to the face or
\* behind it) or a point of the struck face, clamped to the face; the camera
\* ray is an input (onface: it strikes the face), and the face is sampled
\* at its centre.
HitPos(v, n, json, onface) ==
    LET centre == <<2 * v[1] + 1, 2 * v[2] + 1, 2 * v[3] + 1>>
    IN  IF json /\ onface THEN [i \in 1..3 |-> centre[i] + n[i]]
        ELSE centre

\* lines 811-814: diff = dot(normal, normalize(LIGHT_POS - hit_pos)), 0 when
\* it is <= 0; in units of 1/10000, rounded down.
\* A diffuse term that forgets which side of the face the light is on.
DiffuseQ_Abs(n, light, hit) ==
    LET to_light == Minus(light, hit)
        num == IF Dot(n, to_light) < 0 THEN -Dot(n, to_light)
               ELSE Dot(n, to_light)
    IN  IF num = 0 THEN 0
        ELSE (num * 1000000) \div ISqrt(Dot(to_light, to_light) * 10000)
DiffuseQ(n, light, hit) ==
    LET to_light == Minus(light, hit)
        num == Dot(n, to_light)
    IN  IF num <= 0 THEN 0
        ELSE (num * 1000000) \div ISqrt(Dot(to_light, to_light) * 10000)

\* line 828: brightness = AMBIENT + (1 - AMBIENT) * min(1, max(0, diff)).
BrightnessQ(diff) ==
    LET c == IF diff < 0 THEN 0 ELSE IF diff > 10000 THEN 10000 ELSE diff
    IN  AmbientQ + ((10000 - AmbientQ) * c) \div 10000

\* SKY_COLOR, line 90; line 830: pixel = base_color * brightness; line 859:
\* the white of the light dot.
Sky == [kind |-> "sky"]
Shaded(base, brightness) ==
    [kind |-> "hit", base |-> base, brightness |-> brightness]
White == [kind |-> "white"]

\* lines 118-123 of _is_shadowed_to_light: the light lies within 1e-6 of
\* the shadow origin hit_pos + normal * SHADOW_BIAS. In units of 1/2000
\* voxel the bias is 2; every component of the difference must vanish,
\* which no light on the half-voxel lattice does.
NearLight(hit, n, light) ==
    \A i \in 1..3 : 1000 * (light[i] - hit[i]) = 2 * n[i]

\* lines 127-135: whether the encoder accepts the shadow ray. The ray leaves
\* hit_pos + normal * SHADOW_BIAS towards the light, on the side the normal
\* points to (diff > 0). From an origin inside the world box the slab test
\* reports a hit with t_exit >= 0, valid = 1; from an origin beyond a face
\* of the world, moving away from it, the box lies behind the ray, valid = 0.
ShadowJobValid(hit, n) ==
    \A i \in 1..3 :
        1000 * hit[i] + 2 * n[i] \in 0..(2000 * (GridMax + 1))

\* lines 201-213, _to_fixed_nonneg: an infinite distance saturates to
\* (1 << FIXED_W) - 1, with FIXED_W = 24.
FixedMax == 16777215

\* lines 127-140 and 245-311: the shadow job _make_option_b_job encodes for
\* the ray from hit_pos + normal * SHADOW_BIAS to the light. The start
\* voxel is the floor of the origin, clamped into the grid; a sign bit is 1
\* where the direction is not negative; an axis the ray runs parallel to
\* has saturated accumulators. The other accumulators and the target
\* distance are floating-point results, sampled here.
ShadowEncoding(hit, n, light) ==
    LET o == [i \in 1..3 |-> 1000 * hit[i] + 2 * n[i]]
        to_light == [i \in 1..3 |-> 1000 * light[i] - o[i]]
        vox == [i \in 1..3 |->
                   IF o[i] \div 2000 > GridMax THEN GridMax
                   ELSE o[i] \div 2000]
        sgn == [i \in 1..3 |-> IF to_light[i] >= 0 THEN 1 ELSE 0]
        fx(i, val) == IF to_light[i] = 0 THEN FixedMax ELSE val
    IN  [job |-> [valid |-> 1, ix0 |-> vox[1], iy0 |-> vox[2],
                  iz0 |-> vox[3], sx |-> sgn[1], sy |-> sgn[2],
                  sz |-> sgn[3],
                  next_x |-> fx(1, 1), next_y |-> fx(2, 0),
                  next_z |-> fx(3, 2),
                  inc_x |-> fx(1, 1), inc_y |-> fx(2, 1), inc_z |-> fx(3, 1),
                  max_steps |-> 512],
         t_end_fx |-> 3]

\* lines 137-143: the shadow job as it is sent for pixel (px, py); max_steps
\* is the simulator's count.
ShadowJob(e, px, py) ==
    [f \in DOMAIN e.job \cup {"px", "py"} |->
        IF f = "px" THEN px
        ELSE IF f = "py" THEN py
        ELSE IF f = "max_steps" THEN ShadowStepBudget(e.job, e.t_end_fx)
        ELSE e.job[f]]

\* lines 145-156: what _is_shadowed_to_light makes of the round-trip.
\* A reading of the hit outputs that forgets to look at ok_shadow.
Shadowed_IgnoresOk(ret, d, voxel) ==
    d.ray_hit = 1 /\ d.hit_voxel # voxel
Shadowed(ret, d, voxel) ==
    /\ ret = "true"
    /\ d.ray_hit = 1
    /\ d.hit_voxel # voxel

-----------------------------------------------------------------------------
\* test_render_image: the inputs.

\* A row of the ray-job file as _parse_ray_jobs (lines 556-573, with
\* skip_invalid = False) returns it: a job, or filler zeros with valid = 0.
FileRow(p, v) ==
    [px |-> p[1], py |-> p[2], valid |-> v,
     ix0 |-> v * 3, iy0 |-> v * (4 + p[1]), iz0 |-> 0,
     sx |-> v, sy |-> 0, sz |-> v,
     next_x |-> v * 2, next_y |-> v, next_z |-> 0,
     inc_x |-> v * 3, inc_y |-> v * 2, inc_z |-> v, max_steps |-> v * 96]

FileRows ==
    { FileRow(<<0, 0>>, 1), FileRow(<<1, 0>>, 1), FileRow(<<1, 0>>, 0) }

RECURSIVE SeqsUpTo(_, _)
SeqsUpTo(S, n) ==
    IF n = 0 THEN {<<>>}
    ELSE LET shorter == SeqsUpTo(S, n - 1)
         IN  shorter \cup { Append(q, x) : q \in shorter, x \in S }

JobLists == SeqsUpTo(FileRows, MaxJobs)

\* lines 54-67 and 723-728: what _load_camera_json returned. The file is
\* missing ({}), or it carries a "camera" block that names the image size,
\* or it carries none; the light is the fallback.
NoJson ==
    [json |-> FALSE, camera |-> FALSE, image_w |-> 0, image_h |-> 0,
     light |-> FallbackLight]

Configs ==
    { NoJson,
      [json |-> TRUE, camera |-> TRUE, image_w |-> 2, image_h |-> 1,
       light |-> FallbackLight],
      [json |-> TRUE, camera |-> TRUE, image_w |-> 1, image_h |-> 1,
       light |-> FallbackLight],
      [json |-> TRUE, camera |-> FALSE, image_w |-> 0, image_h |-> 0,
       light |-> FallbackLight] }

\* lines 850-851: where _project_to_pixel puts the light: nowhere (behind
\* the camera), or right of the image, the dot reaching its last column.
\* The camera is an input.
LightPixels == {<<>>, <<4, 0>>}

NoPend == [set |-> FALSE]

NoTrips == <<>>

\* Nothing assigned yet: loop holds the assignments of the per-ray loop,
\* oldest first, dot the pixels the light dot was drawn on.
NoWrites == [loop |-> <<>>, dot |-> {}]

\* The locals of test_render_image before it runs. lp is the pixel the
\* light projected to, once the overlay ran.
RenderOff ==
    [pc |-> "off", idx |-> 0, img_w |-> 0, img_h |-> 0, pend |-> NoPend,
     err |-> "", lp |-> <<>>]

RenderIdle ==
    /\ cfg = NoJson
    /\ jobs = <<>>
    /\ rnd = RenderOff
    /\ writes = NoWrites
    /\ image = <<>>
    /\ png = <<>>
    /\ trips = NoTrips

NoPrev == [set |-> FALSE]

BudgetIdle ==
    /\ job = InvalidJob /\ job0 = InvalidJob
    /\ t_end_fx = 0
    /\ ix = 0 /\ iy = 0 /\ iz = 0
    /\ next_x = 0 /\ next_y = 0 /\ next_z = 0
    /\ steps = 0 /\ iter = 0
    /\ bpc = "idle"
    /\ prev = NoPrev
    /\ returns = <<>>

-----------------------------------------------------------------------------
\* RayJobDriver
\* (src/Raytracing_Accelerator_new/ray_job_driver.py) and the fake job_done
\* driver of src/Raytracing_Accelerator/test_raytracer.py. The interface
\* ray_job_if is a collaborator: what it shows on job_ready and job_loaded
\* at a clock edge is any value, and so is job_done when the fake driver
\* was not started.

\* test_raytracer.py line 54: "countdown = 6".
Countdown == 6

\* ray_job_driver.py lines 12-28: a RayJob; of the thirteen fields driven
\* on the interface the model keeps ix0 and max_steps. The first is the
\* job of test_single_ray_job (test_raytracer.py lines 264-271), the second
\* a row of the dummy file (lines 195-203).
RayJobs ==
    { [px |-> 10, py |-> 20, ix0 |-> 5, max_steps |-> 500],
      [px |-> 0, py |-> 0, ix0 |-> 0, max_steps |-> 100] }

\* ray_job_driver.py lines 94-108: _initialize_job_signals.
ZeroBus == [ix0 |-> 0, max_steps |-> 0]

\* ray_job_driver.py lines 130-143: the fields of the job on the inputs.
BusOf(j) == [ix0 |-> j.ix0, max_steps |-> j.max_steps]

\* ray_job_driver.py lines 90-92 (RayJobDriver.__init__): job_valid low and
\* the job inputs zero; job_ready is the interface's.
JifAfterInit(ready) ==
    [job_ready |-> ready, job_loaded |-> 0, job_done |-> 0,
     job_valid |-> 0, bus |-> ZeroBus]

\* What the model records of the send_job under way: sent, the job was
\* put on the inputs; ready_at, the wait (in edges, 0: on entry) at which
\* job_ready was high; loaded, job_loaded at the sample after the edge
\* that followed job_valid; pulse, job_loaded was high at that sample and
\* low at every later sample of the call; done_at, the wait at which
\* job_done was high (0: at the sample of job_loaded). -1: never.
NoCur ==
    [sent |-> FALSE, ready_at |-> -1, loaded |-> FALSE, pulse |-> FALSE,
     done_at |-> -1]

DrvOff ==
    [pc |-> "off", idx |-> 0, cycles_waited |-> 0, completed |-> 0,
     cur |-> NoCur]

NoBatch ==
    [kind |-> "none", jobs |-> <<>>, wait |-> TRUE, res |-> <<>>,
     returned |-> FALSE, ret |-> 0, ok |-> FALSE]

DriverIdle ==
    /\ jif = JifAfterInit(0)
    /\ drv = DrvOff
    /\ countdown = [on |-> FALSE, n |-> 0]
    /\ batch = NoBatch

\* test_raytracer.py lines 49-66: one turn of drive_job_done, which wakes
\* on the rising edge and reads the job_loaded the interface showed when
\* the edge came. The new countdown and the job_done it drives.
FakeJobDone(n, loaded) ==
    LET c == IF loaded = 1 THEN Countdown ELSE n
    IN  IF c > 0
        THEN [n |-> c - 1, job_done |-> IF c - 1 = 0 THEN 1 ELSE 0]
        ELSE [n |-> 0, job_done |-> 0]

\* What the oracle may show at a clock edge: job_ready, job_loaded and,
\* when the fake driver does not drive it, job_done.
EdgeChoices(cd) ==
    [ready : {0, 1}, loaded : {0, 1}, done : IF cd.on THEN {0} ELSE {0, 1}]

\* The signals after a rising edge at which the oracle shows o.
JifEdge(s, cd, o) ==
    [s EXCEPT !.job_ready = o.ready,
              !.job_loaded = o.loaded,
              !.job_done = IF cd.on
                           THEN FakeJobDone(cd.n, s.job_loaded).job_done
                           ELSE o.done]

CountdownEdge(s, cd) ==
    IF cd.on THEN [cd EXCEPT !.n = FakeJobDone(cd.n, s.job_loaded).n] ELSE cd

\* ray_job_driver.py lines 129-143: job_valid and the job fields driven.
DriveJob(d, s, j, n) ==
    [drv |-> [d EXCEPT !.pc = "accept", !.cycles_waited = n,
                       !.cur.sent = TRUE, !.cur.ready_at = n],
     jif |-> [s EXCEPT !.job_valid = 1, !.bus = BusOf(j)],
     ret |-> "no"]

\* ray_job_driver.py lines 122-124: send_job from its entry to its first
\* await: the while condition read once.
EnterSendJob(d, s, j) ==
    IF s.job_ready = 1
    THEN DriveJob([d EXCEPT !.cur = NoCur], s, j, 0)
    ELSE [drv |-> [d EXCEPT !.pc = "wait_ready", !.cycles_waited = 0,
                            !.cur = NoCur],
          jif |-> s, ret |-> "no"]

\* ray_job_driver.py lines 124-129: one turn of the wait for job_ready;
\* s is what the interface shows after the edge. The limit is tested
\* before job_ready is read again.
ReadyTurn(d, s, j) ==
    LET n == d.cycles_waited + 1
        seen == [d EXCEPT !.cycles_waited = n,
                          !.cur.ready_at = IF s.job_ready = 1 THEN n ELSE -1]
    IN  IF n > ReadyTimeout
        THEN [drv |-> seen, jif |-> s, ret |-> "false"]
        ELSE IF s.job_ready = 1
             THEN DriveJob(d, s, j, n)
             ELSE [drv |-> seen, jif |-> s, ret |-> "no"]

\* ray_job_driver.py lines 145-175, up to the first await of the wait for
\* job_done: job_loaded is read and logged, job_valid and the inputs are
\* taken back, and job_done is read once.
AcceptTurn(d, s, wait) ==
    LET off == [s EXCEPT !.job_valid = 0, !.bus = ZeroBus]
        cur == [d.cur EXCEPT !.loaded = (s.job_loaded = 1),
                             !.pulse = (s.job_loaded = 1),
                             !.done_at = IF s.job_done = 1 THEN 0 ELSE -1]
    IN  IF ~wait
        THEN [drv |-> [d EXCEPT !.cur = cur], jif |-> off, ret |-> "true"]
        ELSE IF s.job_done = 1
             THEN [drv |-> [d EXCEPT !.cycles_waited = 0, !.cur = cur],
                   jif |-> off, ret |-> "true"]
             ELSE [drv |-> [d EXCEPT !.pc = "wait_done",
                                     !.cycles_waited = 0, !.cur = cur],
                   jif |-> off, ret |-> "no"]

\* ray_job_driver.py lines 164-171: one turn of the wait for job_done; the
\* limit is tested before job_done is read again.
DoneTurn(d, s) ==
    LET n == d.cycles_waited + 1
        seen == [d EXCEPT !.cycles_waited = n,
                          !.cur.pulse = @ /\ s.job_loaded = 0,
                          !.cur.done_at = IF s.job_done = 1 THEN n ELSE -1]
    IN  IF n > DriverTimeout
        THEN [drv |-> seen, jif |-> s, ret |-> "false"]
        ELSE IF s.job_done = 1
             THEN [drv |-> seen, jif |-> s, ret |-> "true"]
             ELSE [drv |-> seen, jif |-> s, ret |-> "no"]

\* ray_job_driver.py lines 194-196: "if success: completed += 1".
\* A batch that counts every job it sent.
Tally_Every(completed, success) == completed + 1
Tally(completed, success) ==
    IF success THEN completed + 1 ELSE completed

\* The encoder at rest.
NoArgs == [fn |-> "none"]

NoOut == [set |-> FALSE]

EncoderIdle ==
    /\ args = NoArgs
    /\ retv = NoOut

\* The loader at rest.
NoLoad ==
    [pc |-> "idle", fn |-> "none", format_type |-> 0, missing |-> FALSE,
     lines |-> <<>>, voxels |-> [shape |-> 0, solid |-> {}],
     grid_size |-> 0, i |-> 0, voxels_loaded |-> 0, driven |-> 0,
     ret |-> 0, exc |-> "none"]

\* lines 34-37: the signals as __init__ leaves them; load_ready is the
\* DUT's.
LoaderSignals ==
    [load_mode |-> 0, load_valid |-> 0, load_ready |-> 0, load_addr |-> 0,
     load_data |-> 0]

LoaderIdle ==
    /\ lif = LoaderSignals
    /\ ldr = NoLoad

-----------------------------------------------------------------------------
\* The stand-alone caller of _send_ray_job: it calls with any job and any
\* timeout_cycles, and keeps what the call returned.
SendJobs ==
    { [px |-> 0, py |-> 0, valid |-> 1, ix0 |-> 0, iy0 |-> 16, iz0 |-> 16,
       sx |-> 1, sy |-> 1, sz |-> 0, next_x |-> 1, next_y |-> 2,
       next_z |-> 2, inc_x |-> 1, inc_y |-> 1, inc_z |-> 1,
       max_steps |-> 96],
      [px |-> 1, py |-> 0, valid |-> 1, ix0 |-> GridMax, iy0 |-> 3,
       iz0 |-> 0, sx |-> 0, sy |-> 1, sz |-> 1, next_x |-> 0, next_y |-> 1,
       next_z |-> 2, inc_x |-> 1, inc_y |-> 0, inc_z |-> 1,
       max_steps |-> 512] }

Returned(r) ==
    [set |-> TRUE, ok |-> (r.ret = "true"), edges |-> r.snd.edges,
     valid_edges |-> r.snd.valid_edges, driven |-> r.snd.driven,
     ready_at |-> r.snd.ready_at, latch_at |-> r.snd.latch_at,
     done_at |-> r.snd.done_at, timeout_cycles |-> r.snd.timeout_cycles,
     job |-> r.snd.job]

\* The step r written to the variables, for the stand-alone caller.
SendWrite(r) ==
    /\ snd' = IF r.ret = "no" THEN r.snd ELSE NoCall
    /\ dut' = r.dut
    /\ sret' = IF r.ret = "no" THEN sret ELSE Returned(r)
    /\ UNCHANGED <<calls, bvars, rvars, ovars>>

SendInit ==
    /\ SendIdle
    /\ RenderIdle
    /\ BudgetIdle
    /\ DriverIdle
    /\ EncoderIdle
    /\ LoaderIdle

SendCall ==
    /\ snd.pc = "idle"
    /\ calls < MaxCalls
    /\ \E j \in SendJobs, tmo \in 0..TimeoutCycles : snd' = SendStart(j, tmo)
    /\ calls' = calls + 1
    /\ sret' = NoReturn
    /\ UNCHANGED <<dut, bvars, rvars, ovars>>

SendReadyEdge ==
    /\ snd.pc = "wait_ready"
    /\ \E ready \in {0, 1} : SendWrite(ReadyStep(snd, dut, ready))

SendLatchEdge ==
    /\ snd.pc = "latch"
    /\ SendWrite(LatchStep(snd, dut))

SendDoneEdge ==
    /\ snd.pc = "wait_done"
    /\ \E done \in {0, 1} :
          \E out \in OracleOutputs(dut, done) :
             SendWrite(DoneStep(snd, dut, done, out))

SendNext == SendCall \/ SendReadyEdge \/ SendLatchEdge \/ SendDoneEdge

SpecSend == SendInit /\ [][SendNext]_vars

-----------------------------------------------------------------------------
\* test_render_image (src/test_raytracer.py:667-873): one action per stretch
\* of the coroutine between two awaited clock edges, and one per turn of
\* "for idx, job in enumerate(jobs)" that awaits nothing.

MaxOf(S) == CHOOSE m \in S : \A v \in S : v <= m

\* lines 723-734: the image size, from camera_light.json if it names one,
\* else from the largest pixel coordinates of the job list.
ImageSize(c, js) ==
    LET w0 == IF c.json /\ c.camera THEN c.image_w ELSE 0
        h0 == IF c.json /\ c.camera THEN c.image_h ELSE 0
    IN  IF w0 <= 0 \/ h0 <= 0
        THEN [w |-> MaxOf({js[i].px : i \in DOMAIN js}) + 1,
              h |-> MaxOf({js[i].py : i \in DOMAIN js}) + 1]
        ELSE [w |-> w0, h |-> h0]

\* image[py, px] of a numpy array of shape (img_h, img_w, 3) raises
\* IndexError outside it (the pixel coordinates of a row are not negative).
\* An image that refuses its last column.
InImage_Strict(r, j) == j.py < r.img_h /\ j.px < r.img_w - 1
InImage(r, j) == j.py < r.img_h /\ j.px < r.img_w

\* The row of the job list the loop is at (idx counts from 0).
Row == jobs[rnd.idx + 1]

\* "continue", and the end of the loop body: on to the next row.
NextRow(r) == [r EXCEPT !.pc = "row", !.idx = @ + 1]

\* An exception leaves the coroutine; cocotb fails the test.
Raise(r, e) == [r EXCEPT !.pc = "aborted", !.err = e]

\* A round-trip starts, and returns.
OpenTrip(t, i, k) == Append(t, [idx |-> i, kind |-> k, res |-> "open"])
CloseTrip(t, res) == [t EXCEPT ![Len(t)].res = res]

\* lines 763-769: "if not ok: miss_count += 1; continue".
\* A loop that submits the timed-out job again.
AfterTimeout_Retry(r) == [r EXCEPT !.pc = "row"]
AfterTimeout(r) == NextRow(r)

\* line 816: "shadowed = await _is_shadowed_to_light(...)", with the locals
\* the shading needs after it: base_color, diff, (x, y, z).
\* A shadow query that is started and not awaited.
AwaitShadow_Forgotten(r, p) == [NextRow(r) EXCEPT !.pend = p]
AwaitShadow(r, p) == [r EXCEPT !.pc = "shadow", !.pend = p]

\* lines 759, 831 and 835: image[job["py"], job["px"]] = pixel.
\* An assignment with the two indices exchanged.
Paint_Transposed(img, j, colour) == [img EXCEPT ![<<j.px, j.py>>] = colour]
Paint(img, j, colour) == [img EXCEPT ![<<j.py, j.px>>] = colour]

\* lines 759-761, 830-832 and 835-836: the pixel of row j is assigned, then
\* the next row; r holds the locals of the loop.
WritePixel(r, j, colour) ==
    IF InImage(r, j)
    THEN /\ image' = Paint(image, j, colour)
         /\ writes' = [writes EXCEPT !.loop =
                          Append(@, [idx |-> r.idx, p |-> <<j.py, j.px>>,
                                     colour |-> colour])]
         /\ rnd' = NextRow(r)
    ELSE /\ rnd' = Raise(r, "IndexError")
         /\ UNCHANGED <<image, writes>>

RenderInit ==
    /\ cfg \in Configs
    /\ jobs \in JobLists
    /\ rnd = [RenderOff EXCEPT !.pc = "start"]
    /\ image = <<>>
    /\ png = <<>>
    /\ trips = NoTrips
    /\ writes = NoWrites
    /\ SendIdle
    /\ BudgetIdle
    /\ DriverIdle
    /\ EncoderIdle
    /\ LoaderIdle

\* lines 667-751: reset, scene and colours loaded, the job list parsed and
\* the framebuffer allocated; an empty job list fails the assertion of
\* line 720.
RenderStart ==
    /\ rnd.pc = "start"
    /\ IF jobs = <<>>
       THEN /\ rnd' = Raise(rnd, "AssertionError")
            /\ UNCHANGED image
       ELSE LET sz == ImageSize(cfg, jobs)
            IN  /\ rnd' = [rnd EXCEPT !.pc = "row", !.idx = 0,
                                      !.img_w = sz.w, !.img_h = sz.h]
                /\ image' = [p \in (0..(sz.h - 1)) \X (0..(sz.w - 1)) |-> Sky]
    /\ UNCHANGED <<cfg, jobs, png, trips, writes, svars, bvars, ovars>>

\* line 758: "if not job.get("valid", 1)"; every parsed row has the key.
\* A loop that sends every row.
Skipped_Never(j) == FALSE
Skipped(j) == j.valid = 0

\* lines 754-765: a turn of the loop up to the first awaited edge of
\* _send_ray_job; a row with valid = 0 is painted sky and never sent.
RenderRow ==
    /\ rnd.pc = "row"
    /\ rnd.idx < Len(jobs)
    /\ IF Skipped(Row)
       THEN /\ WritePixel(rnd, Row, Sky)
            /\ UNCHANGED <<snd, trips>>
       ELSE /\ snd' = SendStart(Row, TimeoutCycles)
            /\ rnd' = [rnd EXCEPT !.pc = "primary"]
            /\ trips' = OpenTrip(trips, rnd.idx, "primary")
            /\ UNCHANGED <<image, writes>>
    /\ UNCHANGED <<dut, sret, calls, cfg, jobs, png, bvars, ovars>>

\* lines 766-843: _send_ray_job returned r.ret for the primary ray of the
\* row. onface is the input of the shading: whether the camera ray strikes
\* the face.
PrimaryReturned(r, onface) ==
    LET d == r.dut
        v == d.hit_voxel
        n == FACE_NORMALS[ClampFaceId(d.hit_face_id) + 1]
        base == BaseColor(ColorMem(VoxelAddr(v[1], v[2], v[3])))
        hit == HitPos(v, n, cfg.json, onface)
        diff == DiffuseQ(n, cfg.light, hit)
        \* the locals of the shading: base_color, diff, (x, y, z), normal,
        \* hit_pos
        shading == [set |-> TRUE, base |-> base, diff |-> diff,
                    voxel |-> v, n |-> n, hit |-> hit]
    IN  /\ dut' = d
        /\ IF r.ret = "false"
           THEN /\ rnd' = AfterTimeout(rnd)
                /\ snd' = NoCall
                /\ trips' = CloseTrip(trips, "timeout")
                /\ UNCHANGED <<image, writes>>
           ELSE IF d.ray_hit = 0
           THEN /\ WritePixel(rnd, Row, Sky)
                /\ snd' = NoCall
                /\ trips' = CloseTrip(trips, "ok")
           ELSE IF cfg.json /\ ~cfg.camera
           THEN /\ rnd' = Raise(rnd, "KeyError")
                /\ snd' = NoCall
                /\ trips' = CloseTrip(trips, "ok")
                /\ UNCHANGED <<image, writes>>
           ELSE IF \/ diff <= 0
                   \/ ~ShadowsEnabled
                   \/ NearLight(hit, n, cfg.light)
                   \/ ~ShadowJobValid(hit, n)
           THEN /\ WritePixel([rnd EXCEPT !.pend = shading], Row,
                              Shaded(base, BrightnessQ(diff)))
                /\ snd' = NoCall
                /\ trips' = CloseTrip(trips, "ok")
           ELSE /\ snd' = SendStart(
                            ShadowJob(ShadowEncoding(hit, n, cfg.light),
                                      Row.px, Row.py),
                            TimeoutCycles)
                /\ rnd' = AwaitShadow(rnd, shading)
                /\ trips' = OpenTrip(CloseTrip(trips, "ok"), rnd.idx,
                                     "shadow")
                /\ UNCHANGED <<image, writes>>

\* lines 145-156 and 824-831: _send_ray_job returned r.ret for the shadow
\* ray of the row.
ShadowReturned(r) ==
    LET shadowed == Shadowed(r.ret, r.dut, rnd.pend.voxel)
        diff == IF shadowed THEN 0 ELSE rnd.pend.diff
    IN  /\ dut' = r.dut
        /\ snd' = NoCall
        /\ trips' = CloseTrip(trips, IF r.ret = "true" THEN "ok"
                                     ELSE "timeout")
        /\ WritePixel(rnd, Row, Shaded(rnd.pend.base, BrightnessQ(diff)))

\* The step r of the running call of _send_ray_job, and what the render
\* loop does when it returns.
Resume(r, onface) ==
    /\ IF r.ret = "no"
       THEN /\ snd' = r.snd
            /\ dut' = r.dut
            /\ UNCHANGED <<rnd, image, trips, writes>>
       ELSE IF rnd.pc = "primary"
       THEN PrimaryReturned(r, onface)
       ELSE ShadowReturned(r)
    /\ UNCHANGED <<sret, calls, cfg, jobs, png, bvars, ovars>>

\* The camera ray matters to the shading of a primary hit only.
ShadingInputs(done, out) ==
    IF rnd.pc = "primary" /\ done = 1 /\ out.ray_hit = 1 /\ cfg.json
    THEN BOOLEAN
    ELSE {FALSE}

InTrip == rnd.pc \in {"primary", "shadow"}

RenderReadyEdge ==
    /\ InTrip
    /\ snd.pc = "wait_ready"
    /\ \E ready \in {0, 1} :
          Resume(ReadyStep(snd, dut, ready), FALSE)

RenderLatchEdge ==
    /\ InTrip
    /\ snd.pc = "latch"
    /\ Resume(LatchStep(snd, dut), FALSE)

RenderDoneEdge ==
    /\ InTrip
    /\ snd.pc = "wait_done"
    /\ \E done \in {0, 1} :
          \E out \in OracleOutputs(dut, done) :
             \E onface \in ShadingInputs(done, out) :
                Resume(DoneStep(snd, dut, done, out), onface)

\* line 849: dot_r = max(3, int(min(img_w, img_h) * 0.04)).
DotRadius(w, h) ==
    LET m == ((IF w < h THEN w ELSE h) * 4) \div 100
    IN  IF m > 3 THEN m ELSE 3

\* lines 853-858: the pixels of the image inside the dot around the pixel
\* lp = <<px, py>> the light projects to; lp = <<>> when the light is behind
\* the camera.
DotPixels(img, lp, w, h) ==
    { p \in DOMAIN img :
        /\ lp # <<>>
        /\ (p[2] - lp[1]) * (p[2] - lp[1]) + (p[1] - lp[2]) * (p[1] - lp[2])
              <= DotRadius(w, h) * DotRadius(w, h) }

\* line 859: they are set to white.
\* A dot that spares the pixels the loop has shaded.
Overlay_SkyOnly(img, lp, w, h) ==
    [p \in DOMAIN img |->
        IF p \in DotPixels(img, lp, w, h) /\ img[p] = Sky THEN White
        ELSE img[p]]
Overlay(img, lp, w, h) ==
    [p \in DOMAIN img |->
        IF p \in DotPixels(img, lp, w, h) THEN White ELSE img[p]]

\* lines 867-870: exposure, contrast, gamma and rounding to 8 bits, carried
\* as the colour they are applied to.
ToneMap(c) == [kind |-> "srgb8", lin |-> c]

\* lines 845-873: after the last row, the light dot and the PNG.
\* _project_to_pixel reads cam_data["camera"].
RenderFinish ==
    /\ rnd.pc = "row"
    /\ rnd.idx = Len(jobs)
    /\ IF ~cfg.json
       THEN /\ rnd' = [rnd EXCEPT !.pc = "done"]
            /\ png' = [p \in DOMAIN image |-> ToneMap(image[p])]
            /\ UNCHANGED <<image, writes>>
       ELSE IF ~cfg.camera
       THEN /\ rnd' = Raise(rnd, "KeyError")
            /\ UNCHANGED <<image, png, writes>>
       ELSE \E lp \in LightPixels :
               /\ rnd' = [rnd EXCEPT !.pc = "done", !.lp = lp]
               /\ image' = Overlay(image, lp, rnd.img_w, rnd.img_h)
               /\ writes' = [writes EXCEPT !.dot =
                                DotPixels(image, lp, rnd.img_w, rnd.img_h)]
               /\ png' = [p \in DOMAIN image |-> ToneMap(image'[p])]
    /\ UNCHANGED <<cfg, jobs, trips, svars, bvars, ovars>>

Next ==
    \/ RenderStart
    \/ RenderRow
    \/ RenderReadyEdge
    \/ RenderLatchEdge
    \/ RenderDoneEdge
    \/ RenderFinish

Spec == RenderInit /\ [][Next]_vars

-----------------------------------------------------------------------------
\* The simulator run on a job, and run again on the same job.

BudgetInit ==
    /\ job \in ValidJobs \cup {InvalidJob}
    /\ t_end_fx \in 0..MaxTEnd
    /\ ix = 0 /\ iy = 0 /\ iz = 0
    /\ next_x = 0 /\ next_y = 0 /\ next_z = 0
    /\ steps = 0 /\ iter = 0
    /\ bpc = "call"
    /\ prev = NoPrev
    /\ returns = <<>>
    /\ job0 = job
    /\ SendIdle
    /\ RenderIdle
    /\ DriverIdle
    /\ EncoderIdle
    /\ LoaderIdle

\* lines 323-344: the call; "valid: 0" returns 0 at once.
BudgetCall ==
    /\ bpc = "call"
    /\ prev' = NoPrev
    /\ IF ~JobValid(job)
       THEN /\ returns' = Append(returns, 0)
            /\ bpc' = IF Len(returns) + 1 < Reruns THEN "call" ELSE "idle"
            /\ UNCHANGED <<ix, iy, iz, next_x, next_y, next_z, steps, iter>>
       ELSE LET e == EntryLocals(job)
            IN  /\ ix' = e.ix /\ iy' = e.iy /\ iz' = e.iz
                /\ next_x' = e.next_x /\ next_y' = e.next_y
                /\ next_z' = e.next_z
                /\ steps' = e.steps /\ iter' = e.iter
                /\ bpc' = "loop"
                /\ UNCHANGED returns
    /\ UNCHANGED <<job, t_end_fx, job0, svars, rvars,
                   ovars>>

\* The locals after one iteration, written to the variables.
WriteLocals(r) ==
    /\ ix' = r.loc.ix /\ iy' = r.loc.iy /\ iz' = r.loc.iz
    /\ next_x' = r.loc.next_x /\ next_y' = r.loc.next_y
    /\ next_z' = r.loc.next_z
    /\ steps' = r.loc.steps /\ iter' = r.loc.iter
    /\ bpc' = IF r.go THEN "loop" ELSE "ret"
    /\ prev' = [set |-> TRUE, ix |-> ix, iy |-> iy, iz |-> iz,
                next_x |-> next_x, next_y |-> next_y, next_z |-> next_z,
                steps |-> steps]

\* An iteration that wrote the accumulator back into the caller's dict.
BudgetIter_Aliased ==
    /\ bpc = "loop"
    /\ LET r == IterBody(Locals, job, t_end_fx)
       IN  /\ WriteLocals(r)
           /\ job' = [job EXCEPT !.next_x = r.loc.next_x,
                                 !.next_y = r.loc.next_y,
                                 !.next_z = r.loc.next_z]
    /\ UNCHANGED <<t_end_fx, returns, job0, svars, rvars,
                   ovars>>

\* lines 346-374: one iteration of the loop; the job dict is only read.
BudgetIter ==
    /\ bpc = "loop"
    /\ WriteLocals(IterBody(Locals, job, t_end_fx))
    /\ UNCHANGED <<job, t_end_fx, returns, job0, svars, rvars,
                   ovars>>

\* line 376: return int(steps); the caller may run it again on the same job.
BudgetReturn ==
    /\ bpc = "ret"
    /\ returns' = Append(returns, steps)
    /\ bpc' = IF Len(returns) + 1 < Reruns THEN "call" ELSE "idle"
    /\ UNCHANGED <<job, t_end_fx, ix, iy, iz, next_x, next_y, next_z, steps,
                   iter, prev, job0, svars, rvars,
                   ovars>>

BudgetNext == BudgetCall \/ BudgetIter \/ BudgetReturn

SpecBudget == BudgetInit /\ [][BudgetNext]_vars

-----------------------------------------------------------------------------
\* Properties of _shadow_step_budget, checked under SpecBudget.

\* The least of three accumulators, stated without the code's comparisons.
Least(a, b, c) == CHOOSE m \in {a, b, c} : \A v \in {a, b, c} : m <= v

\* The last iteration counted a step.
Stepped == prev.set /\ steps = prev.steps + 1

InGrid(x, y, z) ==
    x \in 0..GridMax /\ y \in 0..GridMax /\ z \in 0..GridMax

Abs(n) == IF n < 0 THEN -n ELSE n

\* C1: every simulated step advances the axis whose accumulator is the
\* minimum of next_x, next_y, next_z, ties broken X, then Y, then Z: X is
\* stepped iff next_x <= next_y and next_x <= next_z, otherwise Y iff
\* next_y <= next_z, otherwise Z; only that axis' coordinate and accumulator
\* change.
C1_TieBreakXYZ ==
    Stepped =>
        LET px == prev.next_x <= prev.next_y /\ prev.next_x <= prev.next_z
            py == ~px /\ prev.next_y <= prev.next_z
            pz == ~px /\ ~py
            lo == Least(prev.next_x, prev.next_y, prev.next_z)
        IN  /\ (ix # prev.ix) <=> px
            /\ (iy # prev.iy) <=> py
            /\ (iz # prev.iz) <=> pz
            /\ px => /\ prev.next_x = lo
                     /\ ix = prev.ix + StepOf(job.sx)
                     /\ next_x = prev.next_x + job.inc_x
            /\ py => /\ prev.next_y = lo
                     /\ iy = prev.iy + StepOf(job.sy)
                     /\ next_y = prev.next_y + job.inc_y
            /\ pz => /\ prev.next_z = lo
                     /\ iz = prev.iz + StepOf(job.sz)
                     /\ next_z = prev.next_z + job.inc_z
            /\ ~px => next_x = prev.next_x
            /\ ~py => next_y = prev.next_y
            /\ ~pz => next_z = prev.next_z

\* A step was taken on X while all three accumulators were equal.
C1_Witness ==
    /\ Stepped
    /\ prev.next_x = prev.next_y /\ prev.next_y = prev.next_z
    /\ ix # prev.ix

\* A step was taken on Y while next_y = next_z < next_x.
C1_WitnessY ==
    /\ Stepped
    /\ prev.next_y = prev.next_z /\ prev.next_y < prev.next_x
    /\ iy # prev.iy

C3_StopsOutsideGrid ==
    /\ bpc = "loop" => InGrid(ix, iy, iz)
    /\ prev.set => InGrid(prev.ix, prev.iy, prev.iz)
    /\ (bpc \in {"loop", "ret"} \/ (returns # <<>> /\ JobValid(job0)))
          => /\ steps = Abs(ix - job0.ix0) + Abs(iy - job0.iy0)
                            + Abs(iz - job0.iz0)
             /\ ix \in -1..(GridMax + 1)
             /\ iy \in -1..(GridMax + 1)
             /\ iz \in -1..(GridMax + 1)
    /\ (bpc = "ret" /\ ~InGrid(ix, iy, iz)) => Stepped
    /\ (returns # <<>> /\ bpc \in {"call", "idle"})
          => returns[Len(returns)] = steps

\* A run that walked several voxels and returned after leaving the grid.
C3_Witness ==
    /\ returns # <<>> /\ returns[1] >= 3
    /\ ~InGrid(ix, iy, iz)

\* C4: running the simulator again on the same job and target returns the
\* same count, and a run leaves every field of the job unchanged.
C4_Idempotent ==
    /\ job = job0
    /\ \A k \in DOMAIN returns : returns[k] = returns[1]

\* The simulator ran twice on a job that makes it count steps.
C4_Witness == Len(returns) >= 2 /\ returns[1] >= 2 /\ returns[2] = returns[1]

-----------------------------------------------------------------------------
\* Properties of _send_ray_job, checked under SpecSend.

\* C6: job_valid and the job fields are driven only after job_ready was
\* sampled high on a clock edge; job_valid is high at exactly one clock edge
\* and low during the whole wait for ray_done, so it is never high while a
\* job of the same call is awaited.
C6_ValidStrobe ==
    /\ dut.job_valid = 1 =>
          /\ snd.pc = "latch"
          /\ dut.job_ready = 1
          /\ snd.ready_at = snd.edges
          /\ snd.valid_edges = 0
          /\ dut.bus = JobFields(snd.job)
    /\ snd.pc = "wait_ready" =>
          /\ dut.job_valid = 0
          /\ ~snd.driven
          /\ calls = 1 => dut.bus = <<>>
    /\ snd.pc = "wait_done" => dut.job_valid = 0 /\ snd.valid_edges = 1
    /\ snd.pc = "idle" => dut.job_valid = 0
    /\ snd.driven => snd.ready_at > 0
    /\ snd.valid_edges <= 1
    /\ sret.set =>
          /\ sret.driven <=> sret.ready_at > 0
          /\ sret.valid_edges = IF sret.ready_at > 0 THEN 1 ELSE 0

\* A second call waits for ray_done, its job latched at one edge.
C6_Witness ==
    /\ calls = 2
    /\ snd.pc = "wait_done" /\ snd.done_wait_cycles >= 1
    /\ snd.valid_edges = 1 /\ dut.job_valid = 0
    /\ snd.ready_at = ReadyWaitEdges

\* C7: both waits are bounded whatever the oracle does: without job_ready
\* within ReadyWaitEdges edges the call returns False and never asserted
\* job_valid; without ray_done within timeout_cycles edges after the latch
\* it returns False; it returns True only if ray_done was sampled high after
\* the latch; it returns within ReadyWaitEdges + 1 + timeout_cycles edges.
C7_BoundedWaits ==
    /\ snd.edges <= ReadyWaitEdges + 1 + snd.timeout_cycles
    /\ snd.pc = "wait_ready" => snd.edges < ReadyWaitEdges
    /\ snd.pc = "wait_done" => snd.edges - snd.latch_at < snd.timeout_cycles
    /\ sret.set =>
          /\ sret.edges <= ReadyWaitEdges + 1 + sret.timeout_cycles
          /\ sret.ready_at <= ReadyWaitEdges
          /\ sret.ready_at = 0 =>
                /\ ~sret.ok
                /\ sret.valid_edges = 0 /\ ~sret.driven
                /\ sret.edges = ReadyWaitEdges
          /\ (sret.ready_at > 0 /\ sret.done_at = 0) =>
                /\ ~sret.ok
                /\ sret.latch_at = sret.ready_at + 1
                /\ sret.edges = sret.latch_at + sret.timeout_cycles
          /\ sret.ok =>
                /\ sret.ready_at > 0
                /\ sret.latch_at = sret.ready_at + 1
                /\ sret.done_at > sret.latch_at
                /\ sret.done_at = sret.edges
                /\ sret.done_at <= sret.latch_at + sret.timeout_cycles

\* The longest call: job_ready at the last edge of its window, ray_done never.
C7_Witness ==
    /\ sret.set /\ ~sret.ok
    /\ sret.ready_at = ReadyWaitEdges
    /\ sret.timeout_cycles = TimeoutCycles
    /\ sret.edges = ReadyWaitEdges + 1 + TimeoutCycles

\* A call that gave up waiting for job_ready.
C7_WitnessNoReady ==
    sret.set /\ ~sret.ok /\ sret.ready_at = 0 /\ sret.edges = ReadyWaitEdges

-----------------------------------------------------------------------------
\* Properties of test_render_image, checked under Spec.

Last(t) == t[Len(t)]

OpenTrips == {i \in DOMAIN trips : trips[i].res = "open"}

\* The framebuffer index of row idx (counted from 0) of the job list.
PixelOf(idx) == <<jobs[idx + 1].py, jobs[idx + 1].px>>

\* C5: at most one oracle request is outstanding: a round-trip is started
\* only when every earlier one has returned (ray_done seen or timed out);
\* rows are processed in job-list order, none skipped and none twice; the
\* shadow round-trip of a row comes directly after the completed primary
\* round-trip of the same row, and so before the primary job of the next row
\* is driven; job_valid is only ever high for the one open round-trip.
C5_OneOutstanding ==
    /\ \A i \in OpenTrips : i = Len(trips)
    /\ (OpenTrips # {}) <=> InTrip
    /\ InTrip => Last(trips).idx = rnd.idx /\ Last(trips).kind = rnd.pc
    /\ ~InTrip => snd = NoCall
    /\ dut.job_valid = 1 =>
          /\ InTrip /\ snd.pc = "latch"
          /\ dut.bus = JobFields(snd.job)
          /\ rnd.pc = "primary" => snd.job = Row
    /\ \A a, b \in DOMAIN trips :
          a < b =>
             \/ trips[a].idx < trips[b].idx
             \/ /\ trips[a].idx = trips[b].idx
                /\ b = a + 1
                /\ trips[a].kind = "primary" /\ trips[a].res = "ok"
                /\ trips[b].kind = "shadow"
    /\ \A b \in DOMAIN trips :
          trips[b].kind = "shadow" =>
             b > 1 /\ trips[b - 1].idx = trips[b].idx
    /\ \A b \in DOMAIN trips :
          /\ trips[b].idx <= rnd.idx
          /\ trips[b].idx < Len(jobs)
          /\ jobs[trips[b].idx + 1].valid = 1
    /\ \A k \in 0..(rnd.idx - 1) :
          jobs[k + 1].valid = 1 =>
             \E b \in DOMAIN trips :
                trips[b].idx = k /\ trips[b].kind = "primary"

\* The primary job of the second row is being latched; the first row had a
\* primary and a shadow round-trip, both returned.
C5_Witness ==
    /\ Len(trips) = 3
    /\ trips[1] = [idx |-> 0, kind |-> "primary", res |-> "ok"]
    /\ trips[2].idx = 0 /\ trips[2].kind = "shadow" /\ trips[2].res # "open"
    /\ trips[3] = [idx |-> 1, kind |-> "primary", res |-> "open"]
    /\ dut.job_valid = 1

\* What the job list and camera_light.json must be like for the render to
\* get through: a row at all, every row's pixel inside the image, and a
\* camera block in camera_light.json if the file exists.
RowsInImage ==
    \A i \in DOMAIN jobs :
        /\ jobs[i].px < ImageSize(cfg, jobs).w
        /\ jobs[i].py < ImageSize(cfg, jobs).h

Renderable ==
    /\ jobs # <<>>
    /\ RowsInImage
    /\ cfg.json => cfg.camera

TripEdges == ReadyWaitEdges + 1 + TimeoutCycles

RowSteps == 1 + 2 * TripEdges

\* An upper bound of the steps the render has left.
Rank ==
    CASE rnd.pc = "start" -> Len(jobs) * RowSteps + 2
      [] rnd.pc = "row" -> (Len(jobs) - rnd.idx) * RowSteps + 1
      [] rnd.pc = "primary" -> (Len(jobs) - rnd.idx) * RowSteps - snd.edges
      [] rnd.pc = "shadow" ->
            (Len(jobs) - rnd.idx - 1) * RowSteps + 1 + TripEdges - snd.edges
      [] OTHER -> 0

OnlyRowOfPixel(idx) ==
    \A i \in DOMAIN jobs : i # idx + 1 => PixelOf(i - 1) # PixelOf(idx)

C10_ShadowTimeoutKeepsDiffuse ==
    [][(/\ rnd.pc = "shadow"
        /\ rnd'.pc # "shadow"
        /\ Last(trips').res = "timeout")
       => /\ rnd.pend.diff > 0
          /\ PixelOf(rnd.idx) \in DOMAIN image =>
                image'[PixelOf(rnd.idx)] =
                   Shaded(rnd.pend.base,
                          AmbientQ
                             + ((10000 - AmbientQ) * rnd.pend.diff)
                                  \div 10000)]_vars

\* A shadow round-trip timed out while the hit outputs showed a hit on a
\* voxel other than the primary one; the pixel is lit.
C10_Witness ==
    /\ rnd.pc = "row"
    /\ trips # <<>>
    /\ Last(trips).kind = "shadow" /\ Last(trips).res = "timeout"
    /\ rnd.idx = Last(trips).idx + 1
    /\ rnd.pend.set /\ rnd.pend.diff > 0
    /\ dut.ray_hit = 1 /\ dut.hit_voxel # rnd.pend.voxel
    /\ image[PixelOf(Last(trips).idx)] =
          Shaded(rnd.pend.base, BrightnessQ(rnd.pend.diff))
    /\ BrightnessQ(rnd.pend.diff) > AmbientQ

\* The light lies on the outer side of the face the shading locals describe.
LightSide == Dot(rnd.pend.n, Minus(cfg.light, rnd.pend.hit)) > 0

\* The primary ray of the row before rnd.idx hit, and the row was shaded
\* without a shadow round-trip.
LitWithoutQuery ==
    /\ rnd.pc = "row"
    /\ trips # <<>>
    /\ Last(trips).kind = "primary" /\ Last(trips).res = "ok"
    /\ rnd.idx = Last(trips).idx + 1
    /\ dut.ray_hit = 1

TripsOf(k) == {b \in DOMAIN trips : trips[b].idx = k}

C11_WitnessBehind ==
    /\ LitWithoutQuery
    /\ ~LightSide
    /\ image[PixelOf(rnd.idx - 1)] = Shaded(rnd.pend.base, AmbientQ)
    /\ Cardinality(TripsOf(rnd.idx - 1)) = 1

\* A lit hit inside the world, its shadow round-trip running.
C11_WitnessQuery ==
    /\ rnd.pc = "shadow" /\ LightSide
    /\ Cardinality(TripsOf(rnd.idx)) = 2

\* The assignments of the per-ray loop to pixel p, in order.
LoopWritesAt(p) == {a \in DOMAIN writes.loop : writes.loop[a].p = p}

\* The primary round-trip of row k timed out.
PrimaryTimedOut(k) ==
    \E b \in DOMAIN trips :
        trips[b] = [idx |-> k, kind |-> "primary", res |-> "timeout"]

\* C12, as claimed: each pixel is written exactly once: the per-ray loop
\* assigns no (row, col) more than once, and no later stage before the tone
\* mapping overwrites a pixel the loop has shaded.
C12_WrittenOnce ==
    /\ \A a, b \in DOMAIN writes.loop :
          a # b => writes.loop[a].p # writes.loop[b].p
    /\ \A a \in DOMAIN writes.loop :
          writes.loop[a].colour.kind = "hit" => writes.loop[a].p \notin writes.dot

\* C12, amended: the per-ray loop assigns the framebuffer at most once per
\* row of the job list, in job-list order and at that row's pixel: exactly
\* once for a row it got through, except none for a row whose primary
\* round-trip timed out; so a pixel is assigned twice only if two rows name
\* it. After the loop and before the tone mapping the light dot overwrites
\* with white every pixel within its radius of the light's projection,
\* shaded or not; the tone mapping then reads each pixel once.
C12_WritesPerRow ==
    /\ \A a, b \in DOMAIN writes.loop :
          a < b => writes.loop[a].idx < writes.loop[b].idx
    /\ \A a \in DOMAIN writes.loop :
          /\ writes.loop[a].idx < Len(jobs)
          /\ writes.loop[a].p = PixelOf(writes.loop[a].idx)
          /\ writes.loop[a].p \in DOMAIN image
    /\ \A k \in 0..(rnd.idx - 1) :
          (\E a \in DOMAIN writes.loop : writes.loop[a].idx = k)
             <=> ~PrimaryTimedOut(k)
    /\ \A p \in DOMAIN image :
          /\ Cardinality(LoopWritesAt(p))
                <= Cardinality({i \in DOMAIN jobs : PixelOf(i - 1) = p})
          /\ image[p] =
                IF p \in writes.dot THEN White
                ELSE IF LoopWritesAt(p) = {} THEN Sky
                ELSE writes.loop[MaxOf(LoopWritesAt(p))].colour
    /\ writes.dot # {} => rnd.pc = "done" /\ cfg.json /\ rnd.lp # <<>>
    /\ rnd.pc = "done" =>
          /\ writes.dot =
                { p \in DOMAIN image :
                    /\ rnd.lp # <<>>
                    /\ (p[2] - rnd.lp[1]) * (p[2] - rnd.lp[1])
                          + (p[1] - rnd.lp[2]) * (p[1] - rnd.lp[2]) <= 9 }
          /\ png = [p \in DOMAIN image |-> ToneMap(image[p])]

\* The light dot was drawn over a pixel the loop had shaded from a hit, and
\* another pixel was assigned by two rows.
C12_Witness ==
    /\ rnd.pc = "done"
    /\ \E a \in DOMAIN writes.loop :
          /\ writes.loop[a].colour.kind = "hit"
          /\ writes.loop[a].p \in writes.dot
          /\ image[writes.loop[a].p] = White
          /\ png[writes.loop[a].p] = ToneMap(White)

\* Two rows of the job list assigned the same pixel.
C12_WitnessTwice ==
    \E a, b \in DOMAIN writes.loop :
        a # b /\ writes.loop[a].p = writes.loop[b].p

\* No row after row k, among those the loop got through, names its pixel.
LastRowOfPixel(k) ==
    \A i \in (k + 1)..(rnd.idx - 1) : PixelOf(i) # PixelOf(k)

\* The rows with valid = 0 the loop got through, their pixel in the image.
SkippedRows ==
    { k \in 0..(rnd.idx - 1) :
        jobs[k + 1].valid = 0 /\ PixelOf(k) \in DOMAIN image }

\* C13, as claimed: a row with valid = 0 is never submitted, and the final
\* linear colour of its pixel is the sky colour.
C13_FinalSky ==
    /\ \A b \in DOMAIN trips : jobs[trips[b].idx + 1].valid = 1
    /\ rnd.pc = "done" => \A k \in SkippedRows : image[PixelOf(k)] = Sky

\* C13, amended: a row with valid = 0 is never submitted to the oracle: its
\* turn of the loop drives no job field and no job_valid strobe and starts
\* no round-trip, and it assigns the sky colour to the row's pixel. That is
\* the pixel's linear colour when the loop ends unless a later row names
\* the same pixel; the light dot may then paint it white.
C13_InvalidRowSky ==
    /\ [](/\ \A b \in DOMAIN trips : jobs[trips[b].idx + 1].valid = 1
          /\ InTrip => Row.valid = 1
          /\ \A i \in DOMAIN jobs :
                jobs[i].valid = 0 => dut.bus # JobFields(jobs[i])
          /\ \A k \in SkippedRows :
                /\ \E a \in DOMAIN writes.loop :
                      writes.loop[a] =
                         [idx |-> k, p |-> PixelOf(k), colour |-> Sky]
                /\ LastRowOfPixel(k) =>
                      image[PixelOf(k)] =
                         IF PixelOf(k) \in writes.dot THEN White ELSE Sky)
    /\ [][(rnd.pc = "row" /\ rnd.idx < Len(jobs) /\ Row.valid = 0)
             => /\ dut' = dut
                /\ snd' = snd
                /\ trips' = trips
                /\ rnd'.pc \in {"row", "aborted"}]_vars

\* A valid = 0 row was passed over between two round-trips of other rows:
\* the bus still carries the first job, the pixel is sky.
C13_Witness ==
    /\ rnd.pc = "done"
    /\ Len(jobs) = 2
    /\ jobs[1].valid = 1 /\ jobs[2].valid = 0
    /\ 1 \in SkippedRows
    /\ image[PixelOf(1)] = Sky
    /\ Len(trips) = 1 /\ trips[1].res = "ok"
    /\ dut.bus = JobFields(jobs[1])

\* The light dot covers the pixel of a valid = 0 row.
C13_WitnessDot ==
    /\ rnd.pc = "done"
    /\ \E k \in SkippedRows :
          LastRowOfPixel(k) /\ image[PixelOf(k)] = White

-----------------------------------------------------------------------------
\* send_jobs_batch and send_job called by the tests, with and without the
\* fake job_done driver.

\* test_raytracer.py lines 226 and 348 (a batch, always waiting for
\* completion) and line 277 (one job); wait_for_completion is a
\* parameter of send_job (ray_job_driver.py line 110).
\* The lists handed to send_jobs_batch: the two jobs in turn, from either.
Alternating(first, n) ==
    [k \in 1..n |->
        IF k % 2 = 1 THEN first ELSE CHOOSE j \in RayJobs : j # first]

DriverCalls ==
    { [NoBatch EXCEPT !.kind = "batch", !.jobs = Alternating(j, n)] :
         j \in RayJobs, n \in 0..MaxBatch }
    \cup { [NoBatch EXCEPT !.kind = "single", !.jobs = <<j>>, !.wait = w] :
              j \in RayJobs, w \in BOOLEAN }

DriverInit ==
    /\ \E ready \in {0, 1} : jif = JifAfterInit(ready)
    /\ \E on \in BOOLEAN : countdown = [on |-> on, n |-> 0]
    /\ batch \in DriverCalls
    /\ drv = [DrvOff EXCEPT !.pc = "call"]
    /\ SendIdle
    /\ RenderIdle
    /\ BudgetIdle
    /\ EncoderIdle
    /\ LoaderIdle

\* The job of the send_job under way.
DriverJob == batch.jobs[drv.idx + 1]

\* The step r written to the variables. When send_job returns, the batch
\* takes its next turn (ray_job_driver.py lines 193-196); a single call
\* hands the value to the test. The record kept of a call that returned:
\* ready_in, job_ready was high within the ready limit; done_in, job_done
\* was high within the timeout; quick, within the fake driver's countdown.
DriverWrite(r, cd) ==
    /\ jif' = r.jif
    /\ countdown' = cd
    /\ IF r.ret = "no"
       THEN /\ drv' = r.drv
            /\ UNCHANGED batch
       ELSE LET ok == r.ret = "true"
                rec == [job |-> DriverJob, ret |-> ok,
                        sent |-> r.drv.cur.sent,
                        ready_in |-> r.drv.cur.ready_at \in 0..ReadyTimeout,
                        loaded |-> r.drv.cur.loaded,
                        pulse |-> r.drv.cur.pulse,
                        done_in |-> r.drv.cur.done_at \in 0..DriverTimeout,
                        quick |-> r.drv.cur.done_at \in 0..Countdown]
            IN  IF batch.kind = "batch"
                THEN /\ batch' = [batch EXCEPT !.res = Append(@, rec)]
                     /\ drv' = [r.drv EXCEPT !.pc = "call", !.idx = @ + 1,
                                             !.completed = Tally(@, ok)]
                ELSE /\ batch' = [batch EXCEPT !.res = Append(@, rec),
                                               !.returned = TRUE,
                                               !.ok = ok]
                     /\ drv' = [r.drv EXCEPT !.pc = "returned"]
    /\ UNCHANGED <<bvars, svars, rvars, gvars, lvars>>

\* ray_job_driver.py line 193 and lines 122-124: the next job of the list
\* (or the one job of a single call) enters send_job.
DriverSendJob ==
    /\ drv.pc = "call"
    /\ drv.idx < Len(batch.jobs)
    /\ DriverWrite(EnterSendJob(drv, jif, DriverJob), countdown)

\* ray_job_driver.py lines 202-203: the list is through.
BatchReturn ==
    /\ drv.pc = "call"
    /\ drv.idx >= Len(batch.jobs)
    /\ batch' = [batch EXCEPT !.returned = TRUE, !.ret = drv.completed]
    /\ drv' = [drv EXCEPT !.pc = "returned"]
    /\ UNCHANGED <<jif, countdown, bvars, svars, rvars, gvars, lvars>>

DriverReadyEdge ==
    /\ drv.pc = "wait_ready"
    /\ \E o \in EdgeChoices(countdown) :
          DriverWrite(ReadyTurn(drv, JifEdge(jif, countdown, o), DriverJob),
                      CountdownEdge(jif, countdown))

DriverAcceptEdge ==
    /\ drv.pc = "accept"
    /\ \E o \in EdgeChoices(countdown) :
          DriverWrite(AcceptTurn(drv, JifEdge(jif, countdown, o), batch.wait),
                      CountdownEdge(jif, countdown))

DriverDoneEdge ==
    /\ drv.pc = "wait_done"
    /\ \E o \in EdgeChoices(countdown) :
          DriverWrite(DoneTurn(drv, JifEdge(jif, countdown, o)),
                      CountdownEdge(jif, countdown))

DriverNext ==
    \/ DriverSendJob
    \/ BatchReturn
    \/ DriverReadyEdge
    \/ DriverAcceptEdge
    \/ DriverDoneEdge

SpecDriver == DriverInit /\ [][DriverNext]_vars

-----------------------------------------------------------------------------
\* Properties of RayJobDriver, checked under SpecDriver.

\* The send_job calls that returned True.
Succeeded == { k \in DOMAIN batch.res : batch.res[k].ret }

\* The oracle did its part for call k: job_ready was high within the
\* ready limit and job_done within the timeout.
Cooperative(k) == batch.res[k].ready_in /\ batch.res[k].done_in

\* C14: under an oracle that raises job_ready within the ready limit and
\* job_done within the timeout for each job (as the interface does when it
\* pulses job_loaded for each job and the six-cycle fake driver answers),
\* send_jobs_batch drives the jobs one at a time in list order, every job
\* completes and the count returned is len(jobs); under any oracle the
\* count is the number of jobs whose send_job returned True, at most
\* len(jobs).
C14_BatchCount ==
    batch.kind = "batch" =>
       /\ Len(batch.res) = drv.idx
       /\ drv.idx <= Len(batch.jobs)
       /\ \A k \in DOMAIN batch.res : batch.res[k].job = batch.jobs[k]
       /\ drv.completed = Cardinality(Succeeded)
       /\ drv.completed <= Len(batch.jobs)
       /\ jif.job_valid = 1 =>
             drv.pc = "accept" /\ jif.bus = BusOf(DriverJob)
       /\ jif.job_valid = 0 => jif.bus = ZeroBus
       /\ \A k \in DOMAIN batch.res :
             /\ Cooperative(k) => batch.res[k].ret /\ batch.res[k].sent
             /\ (/\ countdown.on
                 /\ Countdown <= DriverTimeout
                 /\ batch.res[k].ready_in
                 /\ batch.res[k].pulse)
                => batch.res[k].quick /\ batch.res[k].ret
       /\ batch.returned =>
             /\ Len(batch.res) = Len(batch.jobs)
             /\ batch.ret = Cardinality(Succeeded)
             /\ (\A k \in DOMAIN batch.res : Cooperative(k))
                   => batch.ret = Len(batch.jobs)

\* A batch of two jobs, each loaded with a one-cycle pulse and answered by
\* the fake driver six cycles later, returned 2.
C14_Witness ==
    /\ batch.kind = "batch"
    /\ batch.returned
    /\ countdown.on
    /\ Len(batch.jobs) = 2
    /\ batch.jobs[1] # batch.jobs[2]
    /\ batch.ret = 2
    /\ \A k \in 1..2 : batch.res[k].pulse /\ batch.res[k].quick

\* A batch under an oracle that lets one job time out returned less than
\* len(jobs).
C14_WitnessShort ==
    /\ batch.kind = "batch"
    /\ batch.returned
    /\ Len(batch.jobs) = 2
    /\ batch.ret = 1
    /\ ~batch.res[1].ret /\ batch.res[2].ret

\* C15, as claimed: send_job returns True only if job_loaded was observed
\* after the cycle in which job_valid was asserted and, when it waits for
\* completion, job_done was observed; in every other case it returns
\* False.
C15_TrueOnlyIfLoaded ==
    \A k \in DOMAIN batch.res :
       batch.res[k].ret <=>
          /\ batch.res[k].sent
          /\ batch.res[k].loaded
          /\ batch.wait => batch.res[k].done_in

-----------------------------------------------------------------------------
\* The encoder: intersect_aabb, to_fixed and make_option_b_job of
\* src/Raytracing_Accelerator/rays_to_scene.py, and their copies
\* _intersect_aabb, _to_fixed_nonneg and _make_option_b_job in
\* src/test_raytracer.py.
\*
\* Positions are counted in half-voxels and direction components in
\* TScale-ths, so that the component TScale is 1.0 and a ray distance
\* (b - o) / d is the integer TScale * (b - o) / d, in half-voxels, for the
\* directions of Dirs. The components of magnitude below EpsDirQ stand for
\* the components below EPS_DIR: 0, and the non-zero ones 1 and -1, whose
\* products with a distance are below every distance of the model. The
\* value handed to the fixed-point conversion is counted in Sub-ths of
\* 2^-frac.

\* rays_to_scene.py lines 34-36: WORLD_MIN, WORLD_MAX, in half-voxels.
WorldMinQ == 0
WorldMaxQ == 64

\* rays_to_scene.py line 38: EPS_DIR; the least magnitude of a component
\* that is not below it.
EpsDirQ == 2

TScale == 1024

\* np.inf (rays_to_scene.py lines 98-99): above every distance of the model.
PosInf == 1000000
NegInf == 0 - PosInf

Sub == 4

\* rays_to_scene.py lines 112-113: (b - o) * (1.0 / d).
SlabT(b, o, d) ==
    IF d > 0 THEN ((b - o) * TScale) \div d
    ELSE 0 - (((b - o) * TScale) \div (0 - d))

\* rays_to_scene.py lines 108 and 120: "return False, 0.0, 0.0".
Miss == [hit |-> FALSE, t_enter |-> 0, t_exit |-> 0]

\* rays_to_scene.py lines 101-122: the loop over the axes from axis i on.
\* A resolver that rejects a box whose exit distance is negative.
RECURSIVE Slabs_RejectsBehind(_, _, _, _, _)
Slabs_RejectsBehind(o, d, i, tmin, tmax) ==
    IF i > 3
    THEN IF tmax < 0 THEN Miss
         ELSE [hit |-> TRUE, t_enter |-> tmin, t_exit |-> tmax]
    ELSE IF (IF d[i] < 0 THEN 0 - d[i] ELSE d[i]) < EpsDirQ
         THEN IF o[i] < WorldMinQ \/ o[i] > WorldMaxQ
              THEN Miss
              ELSE Slabs_RejectsBehind(o, d, i + 1, tmin, tmax)
         ELSE LET a == SlabT(WorldMinQ, o[i], d[i])
                  b == SlabT(WorldMaxQ, o[i], d[i])
                  t0 == IF a > b THEN b ELSE a
                  t1 == IF a > b THEN a ELSE b
                  lo == IF t0 > tmin THEN t0 ELSE tmin
                  hi == IF t1 < tmax THEN t1 ELSE tmax
              IN  IF hi < lo THEN Miss
                  ELSE Slabs_RejectsBehind(o, d, i + 1, lo, hi)
RECURSIVE Slabs(_, _, _, _, _)
Slabs(o, d, i, tmin, tmax) ==
    IF i > 3
    THEN [hit |-> TRUE, t_enter |-> tmin, t_exit |-> tmax]
    ELSE IF (IF d[i] < 0 THEN 0 - d[i] ELSE d[i]) < EpsDirQ
         THEN IF o[i] < WorldMinQ \/ o[i] > WorldMaxQ
              THEN Miss
              ELSE Slabs(o, d, i + 1, tmin, tmax)
         ELSE LET a == SlabT(WorldMinQ, o[i], d[i])
                  b == SlabT(WorldMaxQ, o[i], d[i])
                  t0 == IF a > b THEN b ELSE a
                  t1 == IF a > b THEN a ELSE b
                  lo == IF t0 > tmin THEN t0 ELSE tmin
                  hi == IF t1 < tmax THEN t1 ELSE tmax
              IN  IF hi < lo THEN Miss ELSE Slabs(o, d, i + 1, lo, hi)

\* rays_to_scene.py lines 93-122: intersect_aabb on the world box.
IntersectAabb(o, d) == Slabs(o, d, 1, NegInf, PosInf)

\* src/test_raytracer.py lines 221-237: the loop of _intersect_aabb.
\* A resolver that rejects every ray with a parallel axis.
RECURSIVE TbSlabs_ParallelMiss(_, _, _, _, _)
TbSlabs_ParallelMiss(o, d, i, tmin, tmax) ==
    IF i > 3
    THEN [hit |-> TRUE, t_enter |-> tmin, t_exit |-> tmax]
    ELSE IF (IF d[i] < 0 THEN 0 - d[i] ELSE d[i]) < EpsDirQ
         THEN Miss
         ELSE LET a == SlabT(WorldMinQ, o[i], d[i])
                  b == SlabT(WorldMaxQ, o[i], d[i])
                  t0 == IF a > b THEN b ELSE a
                  t1 == IF a > b THEN a ELSE b
                  lo == IF t0 > tmin THEN t0 ELSE tmin
                  hi == IF t1 < tmax THEN t1 ELSE tmax
              IN  IF hi < lo THEN Miss
                  ELSE TbSlabs_ParallelMiss(o, d, i + 1, lo, hi)
RECURSIVE TbSlabs(_, _, _, _, _)
TbSlabs(o, d, i, tmin, tmax) ==
    IF i > 3
    THEN [hit |-> TRUE, t_enter |-> tmin, t_exit |-> tmax]
    ELSE IF (IF d[i] < 0 THEN 0 - d[i] ELSE d[i]) < EpsDirQ
         THEN IF o[i] < WorldMinQ \/ o[i] > WorldMaxQ
              THEN Miss
              ELSE TbSlabs(o, d, i + 1, tmin, tmax)
         ELSE LET a == SlabT(WorldMinQ, o[i], d[i])
                  b == SlabT(WorldMaxQ, o[i], d[i])
                  t0 == IF a > b THEN b ELSE a
                  t1 == IF a > b THEN a ELSE b
                  lo == IF t0 > tmin THEN t0 ELSE tmin
                  hi == IF t1 < tmax THEN t1 ELSE tmax
              IN  IF hi < lo THEN Miss ELSE TbSlabs(o, d, i + 1, lo, hi)

\* src/test_raytracer.py lines 217-237: _intersect_aabb on the world box.
TbIntersectAabb(o, d) == TbSlabs(o, d, 1, NegInf, PosInf)

\* "1 << n".
RECURSIVE Pow2(_)
Pow2(n) == IF n = 0 THEN 1 ELSE 2 * Pow2(n - 1)

\* A float handed to the conversion: NaN, +inf, -inf, the largest finite
\* double ("max"), or the finite value q / (Sub * 2^frac) plus e times a
\* positive amount that is below every difference of two such values (what
\* EPS_ADVANCE and the 1e-9 of the clamp leave in a distance).
Near(q, e) == [kind |-> "fin", q |-> q, e |-> e]

Float(kind, q) == [kind |-> kind, q |-> q, e |-> 0]

\* np.isfinite(x), math.isfinite(x).
IsFinite(x) == x.kind \in {"fin", "max"}

\* "x < 0.0"; false of NaN.
IsNegative(x) ==
    \/ x.kind = "ninf"
    \/ x.kind = "fin" /\ (x.q < 0 \/ (x.q = 0 /\ x.e < 0))

\* "x * (1 << frac)" in double arithmetic, in Sub-ths: the largest finite
\* double times 2 or more is +inf.
TimesPow2(x, frac) ==
    IF x.kind = "max" /\ frac >= 1 THEN Float("inf", 0) ELSE x

FxReturn(v) == [raised |-> "", val |-> v]

\* int(inf), round(inf): "OverflowError: cannot convert float infinity to
\* integer".
FxRaise(e) == [raised |-> e, val |-> 0]

\* int(v) of the scaled value v = p.q / Sub (+ or - a little), v >= 0:
\* truncation; a value a little below an integer truncates to the one
\* below.
Trunc(p) ==
    IF p.e < 0 /\ p.q % Sub = 0 /\ p.q > 0
    THEN (p.q \div Sub) - 1
    ELSE p.q \div Sub

\* round(v) of the same: to the nearest integer, a tie to the even one; a
\* value a little off a tie is not a tie.
RoundHalfEven(p) ==
    LET f == p.q \div Sub
        r == p.q % Sub
    IN  IF 2 * r < Sub THEN f
        ELSE IF 2 * r > Sub THEN f + 1
        ELSE IF p.e < 0 THEN f
        ELSE IF p.e > 0 THEN f + 1
        ELSE IF f % 2 = 0 THEN f ELSE f + 1

\* rays_to_scene.py lines 125-138: to_fixed.
\* A conversion that rounds every value up.
ToFixed_Up(x, wbits, frac) ==
    LET max_u == Pow2(wbits) - 1
    IN  IF (~IsFinite(x)) \/ IsNegative(x)
        THEN FxReturn(max_u)
        ELSE LET p == TimesPow2(x, frac)
             IN  IF p.kind = "inf" THEN FxRaise("OverflowError")
                 ELSE IF p.kind = "max" THEN FxReturn(max_u)
                 ELSE LET val == Trunc(p) + 1
                      IN  IF val < 0 THEN FxReturn(0)
                          ELSE IF val > max_u THEN FxReturn(max_u)
                          ELSE FxReturn(val)
ToFixed(x, wbits, frac) ==
    LET max_u == Pow2(wbits) - 1
    IN  IF (~IsFinite(x)) \/ IsNegative(x)
        THEN FxReturn(max_u)
        ELSE LET p == TimesPow2(x, frac)
             IN  IF p.kind = "inf" THEN FxRaise("OverflowError")
                 ELSE IF p.kind = "max" THEN FxReturn(max_u)
                 ELSE LET val == RoundHalfEven(p)
                      IN  IF val < 0 THEN FxReturn(0)
                          ELSE IF val > max_u THEN FxReturn(max_u)
                          ELSE FxReturn(val)

\* src/test_raytracer.py lines 201-214: _to_fixed_nonneg.
\* A conversion that rounds as to_fixed does.
ToFixedNonneg_Rounds(x, wbits, frac) ==
    LET max_u == Pow2(wbits) - 1
    IN  IF (~IsFinite(x)) \/ IsNegative(x)
        THEN FxReturn(max_u)
        ELSE LET p == TimesPow2(x, frac)
             IN  IF p.kind = "inf" THEN FxRaise("OverflowError")
                 ELSE IF p.kind = "max" THEN FxReturn(max_u)
                 ELSE LET val == RoundHalfEven(p)
                      IN  IF val < 0 THEN FxReturn(0)
                          ELSE IF val > max_u THEN FxReturn(max_u)
                          ELSE FxReturn(val)
ToFixedNonneg(x, wbits, frac) ==
    LET max_u == Pow2(wbits) - 1
    IN  IF (~IsFinite(x)) \/ IsNegative(x)
        THEN FxReturn(max_u)
        ELSE LET p == TimesPow2(x, frac)
             IN  IF p.kind = "inf" THEN FxRaise("OverflowError")
                 ELSE IF p.kind = "max" THEN FxReturn(max_u)
                 ELSE LET val == Trunc(p)
                      IN  IF val < 0 THEN FxReturn(0)
                          ELSE IF val > max_u THEN FxReturn(max_u)
                          ELSE FxReturn(val)

\* A coordinate of p0: a / TScale voxels plus s times a positive amount
\* below every distance of the model (direction * EPS_ADVANCE, or the
\* product of a component below EPS_DIR with t0, or the 1e-9 of the clamp).
Pt(a, s) == [a |-> a, s |-> s]

Sign(c) == IF c > 0 THEN 1 ELSE IF c < 0 THEN 0 - 1 ELSE 0

\* rays_to_scene.py lines 153-154: t0 = max(t_enter, 0.0) + EPS_ADVANCE and
\* coordinate i of p0 = origin + direction * t0.
Advance(o, d, r, i) ==
    LET te == IF r.t_enter > 0 THEN r.t_enter ELSE 0
        base == (TScale \div 2) * o[i]
    IN  IF (IF d[i] < 0 THEN 0 - d[i] ELSE d[i]) < EpsDirQ
        THEN Pt(base, Sign(d[i]))
        ELSE Pt(base + ((d[i] * te) \div 2), Sign(d[i]))

\* float(N) - 1e-9, the upper clamp of line 157, is the point N less a
\* little.
TopA == (TScale \div 2) * WorldMaxQ

\* rays_to_scene.py line 157: np.minimum(np.maximum(p0, 0.0), N - 1e-9).
\* A clamp from below only.
ClampPt_NoTop(p) ==
    IF p.a < 0 \/ (p.a = 0 /\ p.s < 0) THEN Pt(0, 0) ELSE p
ClampPt(p) ==
    IF p.a < 0 \/ (p.a = 0 /\ p.s < 0) THEN Pt(0, 0)
    ELSE IF p.a > TopA \/ (p.a = TopA /\ p.s >= 0) THEN Pt(TopA, 0 - 1)
    ELSE p

\* rays_to_scene.py lines 159-161: int(np.floor(p0[i])) of a clamped
\* coordinate.
FloorPt(p) ==
    IF p.a % TScale = 0 /\ p.s < 0
    THEN (p.a \div TScale) - 1
    ELSE p.a \div TScale

\* rays_to_scene.py lines 164-166: the step sign bits.
SignBit(dc) == IF dc >= 0 THEN 1 ELSE 0

\* rays_to_scene.py lines 173-175: the next voxel boundary plane.
NextB(v, sbit) == IF sbit = 1 THEN v + 1 ELSE v

\* rays_to_scene.py lines 179-187: axis_t, its results counted in Sub-ths
\* of 2^-frac.
AxisT(dc, p, next_b, frac) ==
    IF (IF dc < 0 THEN 0 - dc ELSE dc) < EpsDirQ
    THEN [tmax |-> Float("inf", 0), tdelta |-> Float("inf", 0)]
    ELSE LET num == Sub * Pow2(frac) * (TScale * next_b - p.a)
             q == IF dc > 0 THEN num \div dc
                  ELSE (0 - num) \div (0 - dc)
             e == 0 - (p.s * Sign(dc))
             one == Sub * Pow2(frac) * TScale
         IN  [tmax |-> IF q < 0 \/ (q = 0 /\ e < 0)
                       THEN Float("fin", 0)
                       ELSE Near(q, e),
              tdelta |-> Float("fin",
                               one \div (IF dc < 0 THEN 0 - dc ELSE dc))]

\* rays_to_scene.py line 202: int(max(0, min(max_steps, 1023))).
\* A clamp that lets a negative step cap through.
ClampMaxSteps_NoFloor(max_steps) ==
    IF max_steps > StepCap THEN StepCap ELSE max_steps
ClampMaxSteps(max_steps) ==
    LET m == IF max_steps > StepCap THEN StepCap ELSE max_steps
    IN  IF m < 0 THEN 0 ELSE m

\* rays_to_scene.py line 150: the valid = 0 job, filler zeros.
NoJob ==
    [valid |-> 0, ix0 |-> 0, iy0 |-> 0, iz0 |-> 0, sx |-> 0, sy |-> 0,
     sz |-> 0, next_x |-> 0, next_y |-> 0, next_z |-> 0, inc_x |-> 0,
     inc_y |-> 0, inc_z |-> 0, max_steps |-> 0]

\* rays_to_scene.py lines 141-205: make_option_b_job. The conversions of
\* its distances return a code: a distance is never the largest double.
\* An encoder that also rejects an exit distance of zero.
MakeOptionBJob_NonPositive(o, d, wbits, frac, max_steps) ==
    LET r == IntersectAabb(o, d)
        p(i) == ClampPt(Advance(o, d, r, i))
        v(i) == FloorPt(p(i))
        t(i) == AxisT(d[i], p(i), NextB(v(i), SignBit(d[i])), frac)
    IN  IF (~r.hit) \/ r.t_exit <= 0
        THEN NoJob
        ELSE [valid |-> 1, ix0 |-> v(1), iy0 |-> v(2), iz0 |-> v(3),
              sx |-> SignBit(d[1]), sy |-> SignBit(d[2]),
              sz |-> SignBit(d[3]),
              next_x |-> ToFixed(t(1).tmax, wbits, frac).val,
              next_y |-> ToFixed(t(2).tmax, wbits, frac).val,
              next_z |-> ToFixed(t(3).tmax, wbits, frac).val,
              inc_x |-> ToFixed(t(1).tdelta, wbits, frac).val,
              inc_y |-> ToFixed(t(2).tdelta, wbits, frac).val,
              inc_z |-> ToFixed(t(3).tdelta, wbits, frac).val,
              max_steps |-> ClampMaxSteps(max_steps)]
MakeOptionBJob(o, d, wbits, frac, max_steps) ==
    LET r == IntersectAabb(o, d)
        p(i) == ClampPt(Advance(o, d, r, i))
        v(i) == FloorPt(p(i))
        t(i) == AxisT(d[i], p(i), NextB(v(i), SignBit(d[i])), frac)
    IN  IF (~r.hit) \/ r.t_exit < 0
        THEN NoJob
        ELSE [valid |-> 1, ix0 |-> v(1), iy0 |-> v(2), iz0 |-> v(3),
              sx |-> SignBit(d[1]), sy |-> SignBit(d[2]),
              sz |-> SignBit(d[3]),
              next_x |-> ToFixed(t(1).tmax, wbits, frac).val,
              next_y |-> ToFixed(t(2).tmax, wbits, frac).val,
              next_z |-> ToFixed(t(3).tmax, wbits, frac).val,
              inc_x |-> ToFixed(t(1).tdelta, wbits, frac).val,
              inc_y |-> ToFixed(t(2).tdelta, wbits, frac).val,
              inc_z |-> ToFixed(t(3).tdelta, wbits, frac).val,
              max_steps |-> ClampMaxSteps(max_steps)]

\* src/test_raytracer.py lines 240-313: _make_option_b_job; "valid: 0"
\* carries no other key, and the distances go through _to_fixed_nonneg.
TbMakeOptionBJob(o, d, wbits, frac, max_steps) ==
    LET r == TbIntersectAabb(o, d)
        p(i) == ClampPt(Advance(o, d, r, i))
        v(i) == FloorPt(p(i))
        t(i) == AxisT(d[i], p(i), NextB(v(i), SignBit(d[i])), frac)
    IN  IF (~r.hit) \/ r.t_exit < 0
        THEN InvalidJob
        ELSE [valid |-> 1, ix0 |-> v(1), iy0 |-> v(2), iz0 |-> v(3),
              sx |-> SignBit(d[1]), sy |-> SignBit(d[2]),
              sz |-> SignBit(d[3]),
              next_x |-> ToFixedNonneg(t(1).tmax, wbits, frac).val,
              next_y |-> ToFixedNonneg(t(2).tmax, wbits, frac).val,
              next_z |-> ToFixedNonneg(t(3).tmax, wbits, frac).val,
              inc_x |-> ToFixedNonneg(t(1).tdelta, wbits, frac).val,
              inc_y |-> ToFixedNonneg(t(2).tdelta, wbits, frac).val,
              inc_z |-> ToFixedNonneg(t(3).tdelta, wbits, frac).val,
              max_steps |-> ClampMaxSteps(max_steps)]

\* The rays handed to the encoder: each origin coordinate outside the box
\* on either side, on a face, or inside; each direction component zero,
\* below EPS_DIR, small (1/512) or 1.0 either way.
OriginQ == {-10, WorldMinQ, 1, 32, WorldMaxQ} \cup
           { WorldMaxQ + 2 * k : k \in 1..Beyond }

Dirs == {0 - TScale, -2, -1, 0, 1, 2, TScale}

\* The step caps handed to the encoder: negative, zero, the default of the
\* callers, the largest one kept, and one above it.
StepCaps == {0 - 1, 0, 512, StepCap, StepCap + 1}

\* Every ray is encoded with the default step cap; the ray from the centre
\* of the box along +X, and the one from beyond the box that misses it,
\* with every step cap.
Rays ==
    { [fn |-> "job", origin |-> <<ox, oy, oz>>, direction |-> <<dx, dy, dz>>,
       x |-> Float("fin", 0), wbits |-> JobW, frac |-> JobFrac,
       max_steps |-> 512] :
         ox \in OriginQ, oy \in OriginQ, oz \in OriginQ,
         dx \in Dirs, dy \in Dirs, dz \in Dirs }
    \cup
    { [fn |-> "job", origin |-> <<ox, 32, 32>>,
       direction |-> <<TScale, 0, 0>>,
       x |-> Float("fin", 0), wbits |-> JobW, frac |-> JobFrac,
       max_steps |-> m] :
         ox \in {32, WorldMaxQ + 2}, m \in StepCaps }

\* The values handed to the conversion, for each format: the special
\* values and every Sub-th from below zero to above the largest code.
Floats(wbits) ==
    { Float(k, 0) : k \in {"nan", "inf", "ninf", "max"} }
    \cup { Float("fin", q) : q \in (0 - Sub)..((Pow2(wbits) + 1) * Sub) }

Conversions ==
    UNION { { [fn |-> "fixed", origin |-> <<0, 0, 0>>,
               direction |-> <<0, 0, 0>>, x |-> x, wbits |-> w,
               frac |-> f, max_steps |-> 0] : x \in Floats(w) } :
            w \in 1..MaxW, f \in 0..MaxFrac }

\* ---- the ray-job parsers: _parse_ray_jobs (src/test_raytracer.py lines
\*      532-576) and RayJobDriver.parse_ray_jobs_from_file
\*      (ray_job_driver.py lines 205-259) ----
\* A line of the file is the sequence of its fields, line.split(); a field
\* is a string. int(field): the value of a decimal literal, an optional
\* sign first, and ValueError for any other string.
PyInt(field) ==
    CASE field = "0" -> [ok |-> TRUE, v |-> 0]
      [] field = "1" -> [ok |-> TRUE, v |-> 1]
      [] field = "2" -> [ok |-> TRUE, v |-> 2]
      [] field = "3" -> [ok |-> TRUE, v |-> 3]
      [] field = "7" -> [ok |-> TRUE, v |-> 7]
      [] field = "+7" -> [ok |-> TRUE, v |-> 7]
      [] field = "-1" -> [ok |-> TRUE, v |-> 0 - 1]
      [] OTHER -> [ok |-> FALSE, exc |-> "ValueError"]

\* "except (ValueError, IndexError)".
Caught == {"ValueError", "IndexError"}

\* parts[i] of Python, i counted from 0, then int() of it.
IntField(parts, i) ==
    IF i + 1 > Len(parts)
    THEN [ok |-> FALSE, exc |-> "IndexError"]
    ELSE PyInt(parts[i + 1])

\* The first of the fields lo..hi, in the order the code converts them,
\* whose conversion raises; 0 - 1 if none does.
FirstBad(parts, lo, hi) ==
    IF \E i \in lo..hi : ~IntField(parts, i).ok
    THEN CHOOSE i \in lo..hi :
            /\ ~IntField(parts, i).ok
            /\ \A k \in lo..(i - 1) : IntField(parts, k).ok
    ELSE 0 - 1

\* What one line does to the list: nothing ("skip"), one job appended
\* ("job"), or an exception that leaves the function ("raise").
LineSkipped == [kind |-> "skip"]

LineFailed(parts, i) ==
    IF IntField(parts, i).exc \in Caught
    THEN LineSkipped
    ELSE [kind |-> "raise"]

\* src/test_raytracer.py lines 545-574: the body of the loop of
\* _parse_ray_jobs. A line is a comment if it starts with "#".
TbParseLine(parts, skip_invalid) ==
    LET n(i) == IntField(parts, i).v
    IN  IF Len(parts) = 0 \/ parts[1] = "#" THEN LineSkipped
        ELSE IF Len(parts) < 16 THEN LineSkipped
        ELSE IF FirstBad(parts, 0, 2) >= 0
        THEN LineFailed(parts, FirstBad(parts, 0, 2))
        ELSE IF skip_invalid /\ n(2) = 0 THEN LineSkipped
        ELSE IF FirstBad(parts, 3, 15) >= 0
        THEN LineFailed(parts, FirstBad(parts, 3, 15))
        ELSE [kind |-> "job",
              job |-> [px |-> n(0), py |-> n(1), valid |-> n(2),
                       ix0 |-> n(3), iy0 |-> n(4), iz0 |-> n(5),
                       sx |-> n(6), sy |-> n(7), sz |-> n(8),
                       next_x |-> n(9), next_y |-> n(10),
                       next_z |-> n(11), inc_x |-> n(12),
                       inc_y |-> n(13), inc_z |-> n(14),
                       max_steps |-> n(15)]]

\* ray_job_driver.py lines 228-257: the body of the loop of
\* parse_ray_jobs_from_file; a RayJob has no valid field.
DriverParseLine(parts, skip_invalid) ==
    LET n(i) == IntField(parts, i).v
    IN  IF Len(parts) < 16 THEN LineSkipped
        ELSE IF FirstBad(parts, 0, 2) >= 0
        THEN LineFailed(parts, FirstBad(parts, 0, 2))
        ELSE IF skip_invalid /\ n(2) = 0 THEN LineSkipped
        ELSE IF FirstBad(parts, 3, 15) >= 0
        THEN LineFailed(parts, FirstBad(parts, 3, 15))
        ELSE [kind |-> "job",
              job |-> [px |-> n(0), py |-> n(1),
                       ix0 |-> n(3), iy0 |-> n(4), iz0 |-> n(5),
                       sx |-> n(6), sy |-> n(7), sz |-> n(8),
                       next_x |-> n(9), next_y |-> n(10),
                       next_z |-> n(11), inc_x |-> n(12),
                       inc_y |-> n(13), inc_z |-> n(14),
                       max_steps |-> n(15)]]

ParseLine(parser, parts, skip_invalid) ==
    IF parser = "tb"
    THEN TbParseLine(parts, skip_invalid)
    ELSE DriverParseLine(parts, skip_invalid)

\* The loop over the lines of the file: the list returned, or the
\* exception of the first line that raises.
ParseRayJobs(parser, rows, skip_invalid) ==
    LET F[i \in 0..Len(rows)] ==
            IF i = 0 THEN [raised |-> FALSE, jobs |-> <<>>]
            ELSE LET r == F[i - 1]
                     o == ParseLine(parser, rows[i], skip_invalid)
                 IN  IF r.raised THEN r
                     ELSE IF o.kind = "raise"
                     THEN [raised |-> TRUE, jobs |-> <<>>]
                     ELSE IF o.kind = "job"
                     THEN [r EXCEPT !.jobs = Append(r.jobs, o.job)]
                     ELSE r
    IN  F[Len(rows)]

\* A line of sixteen integer fields, px and valid as given.
FullRow(px, valid) ==
    <<px, "0", valid, "1", "2", "3", "1", "0", "1", "7", "7", "7", "1",
      "1", "1", "7">>

\* The lines a file is made of: two good ones, one with a sign, a good
\* valid = 0 one, an empty one, one of fifteen fields, a comment of
\* seventeen, lines whose px, valid, iz0 or max_steps is no integer, a
\* valid = 0 line whose iz0 is no integer, and lines of seventeen fields,
\* the last an integer or not.
FileLines ==
    { FullRow("1", "1"), FullRow("+7", "1"), FullRow("2", "0"), <<>>,
      SubSeq(FullRow("3", "1"), 1, 15),
      <<"#">> \o FullRow("px", "valid"),
      FullRow("1.5", "1"), FullRow("3", "yes"),
      [FullRow("3", "1") EXCEPT ![6] = "0x3"],
      [FullRow("3", "1") EXCEPT ![16] = "7.0"],
      [FullRow("3", "0") EXCEPT ![6] = "0x3"],
      Append(FullRow("3", "1"), "7"),
      Append(FullRow("7", "1"), "#note") }

TextFiles ==
    UNION { [1..n -> FileLines] : n \in 0..MaxLines }

ParseCalls ==
    { [fn |-> "parse", parser |-> p, rows |-> f, skip_invalid |-> s] :
        p \in {"tb", "driver"}, f \in TextFiles, s \in BOOLEAN }

\* The values of hit_face_id, a 3-bit signal, handed to the lookup of the
\* normal.
FaceIds == { [fn |-> "normal", fid |-> f] : f \in 0..7 }

EncoderInit ==
    /\ args \in Rays \cup Conversions \cup FaceIds \cup ParseCalls
    /\ retv = NoOut
    /\ SendIdle
    /\ RenderIdle
    /\ BudgetIdle
    /\ DriverIdle
    /\ LoaderIdle

\* make_option_b_job and _make_option_b_job called on the ray, with what
\* their resolvers returned.
Encode ==
    /\ args.fn = "job"
    /\ ~retv.set
    /\ retv' = [set |-> TRUE,
                aabb |-> IntersectAabb(args.origin, args.direction),
                job |-> MakeOptionBJob(args.origin, args.direction,
                      args.wbits, args.frac, args.max_steps),
                tb_aabb |-> TbIntersectAabb(args.origin, args.direction),
                tb_job |-> TbMakeOptionBJob(args.origin, args.direction,
                      args.wbits, args.frac, args.max_steps)]
    /\ UNCHANGED <<args, bvars, svars, rvars, dvars, lvars>>

\* to_fixed and _to_fixed_nonneg called on the value.
Convert ==
    /\ args.fn = "fixed"
    /\ ~retv.set
    /\ retv' = [set |-> TRUE,
                fixed |-> ToFixed(args.x, args.wbits, args.frac),
                tb_fixed |-> ToFixedNonneg(args.x, args.wbits, args.frac)]
    /\ UNCHANGED <<args, bvars, svars, rvars, dvars, lvars>>

\* src/test_raytracer.py lines 783-786 and 799: fid = min(fid, 5) and
\* normal = FACE_NORMALS[fid].
LookupNormal ==
    /\ args.fn = "normal"
    /\ ~retv.set
    /\ retv' = [set |-> TRUE, fid |-> ClampFaceId(args.fid),
                normal |-> FACE_NORMALS[ClampFaceId(args.fid) + 1]]
    /\ UNCHANGED <<args, bvars, svars, rvars, dvars, lvars>>

\* A call of one of the two parsers, from open() to return.
ParseCall ==
    /\ args.fn = "parse"
    /\ ~retv.set
    /\ retv' = LET r == ParseRayJobs(args.parser, args.rows,
                                     args.skip_invalid)
               IN  [set |-> TRUE, raised |-> r.raised, jobs |-> r.jobs]
    /\ UNCHANGED <<args, bvars, svars, rvars, dvars, lvars>>

EncoderNext == Encode \/ Convert \/ LookupNormal \/ ParseCall

SpecEncoder == EncoderInit /\ [][EncoderNext]_vars

-----------------------------------------------------------------------------
\* Properties of the encoder, checked under SpecEncoder.

Encoded == retv.set /\ args.fn = "job"

Converted == retv.set /\ args.fn = "fixed"

\* C16, as claimed: the encoder returns valid = 0 exactly when the
\* resolver reports no intersection or the exit distance is not positive
\* (t_exit <= 0), and valid = 1 otherwise.
C16_InvalidIffExitNotPositive ==
    Encoded =>
       /\ retv.job.valid =
             IF (~retv.aabb.hit) \/ retv.aabb.t_exit <= 0 THEN 0 ELSE 1
       /\ retv.tb_job.valid =
             IF (~retv.tb_aabb.hit) \/ retv.tb_aabb.t_exit <= 0 THEN 0 ELSE 1

\* C16, amended: the encoder returns valid = 0 exactly when the resolver
\* reports no intersection or the exit distance is negative (t_exit < 0),
\* and valid = 1 otherwise; a ray that leaves the box at distance zero gets
\* valid = 1.
C16_InvalidIffExitNegative ==
    Encoded =>
       /\ retv.job.valid =
             IF (~retv.aabb.hit) \/ retv.aabb.t_exit < 0 THEN 0 ELSE 1
       /\ retv.tb_job.valid =
             IF (~retv.tb_aabb.hit) \/ retv.tb_aabb.t_exit < 0 THEN 0 ELSE 1
       /\ (retv.aabb.hit /\ retv.aabb.t_exit = 0) => retv.job.valid = 1
       /\ (retv.tb_aabb.hit /\ retv.tb_aabb.t_exit = 0)
             => retv.tb_job.valid = 1

\* A ray that starts on the face x = 32 and points out of the box: the
\* exit distance is zero and the job is valid.
C16_Witness ==
    /\ Encoded
    /\ args.origin = <<WorldMaxQ, 32, 32>>
    /\ args.direction = <<TScale, 0, 0>>
    /\ retv.aabb.hit /\ retv.aabb.t_exit = 0
    /\ retv.job.valid = 1 /\ retv.tb_job.valid = 1

\* The box is behind the ray on axis i: the ray moves along the axis and
\* both planes of the slab are at negative distances.
BehindOn(i) ==
    \/ args.direction[i] >= EpsDirQ /\ args.origin[i] > WorldMaxQ
    \/ args.direction[i] <= 0 - EpsDirQ /\ args.origin[i] < WorldMinQ

Behind == \E i \in 1..3 : BehindOn(i)

\* The ray of the claim: origin (-5, 16, 16), direction (-1, 0, 0).
DivergingRay ==
    /\ args.origin = <<-10, 32, 32>>
    /\ args.direction[1] < 0 /\ args.direction[1] <= 0 - EpsDirQ
    /\ args.direction[2] = 0 /\ args.direction[3] = 0

\* C17, as claimed: the resolver reports no intersection whenever the exit
\* distance it computed is negative; for origin (-5, 16, 16) and direction
\* (-1, 0, 0) its hit flag is false and the encoder returns valid = 0.
C17_NoHitWhenBehind ==
    Encoded =>
       /\ ~(retv.aabb.hit /\ retv.aabb.t_exit < 0)
       /\ ~(retv.tb_aabb.hit /\ retv.tb_aabb.t_exit < 0)
       /\ DivergingRay =>
             /\ ~retv.aabb.hit /\ ~retv.tb_aabb.hit
             /\ retv.job.valid = 0 /\ retv.tb_job.valid = 0

\* C17, amended: when the box lies entirely behind the ray the resolver
\* reports no intersection or an intersection whose exit distance is
\* negative (it compares the exit distance with the entry distance, not
\* with zero), and the encoder returns valid = 0; an exit distance is
\* negative only then. For origin (-5, 16, 16) and direction (-1, 0, 0)
\* the hit flag is true with t_enter = -37 and t_exit = -5, and the encoder
\* returns valid = 0.
C17_BehindRejectedByEncoder ==
    Encoded =>
       /\ Behind =>
             /\ retv.aabb.hit => retv.aabb.t_exit < 0
             /\ retv.tb_aabb.hit => retv.tb_aabb.t_exit < 0
             /\ retv.job.valid = 0 /\ retv.tb_job.valid = 0
       /\ (retv.aabb.hit /\ retv.aabb.t_exit < 0) => Behind
       /\ (retv.tb_aabb.hit /\ retv.tb_aabb.t_exit < 0) => Behind
       /\ (DivergingRay /\ args.direction[1] = 0 - TScale) =>
             /\ retv.aabb = [hit |-> TRUE, t_enter |-> 0 - 74,
                             t_exit |-> 0 - 10]
             /\ retv.tb_aabb = retv.aabb
       /\ DivergingRay =>
             /\ retv.aabb.hit /\ retv.aabb.t_exit < 0
             /\ retv.tb_aabb.hit /\ retv.tb_aabb.t_exit < 0
             /\ retv.job.valid = 0 /\ retv.tb_job.valid = 0

\* The ray of the claim was resolved and encoded.
C17_Witness ==
    /\ Encoded
    /\ DivergingRay
    /\ retv.aabb.hit /\ retv.aabb.t_exit < 0
    /\ retv.job = NoJob /\ retv.tb_job = InvalidJob

\* The origin is strictly inside the world box.
StrictlyInside ==
    \A i \in 1..3 : WorldMinQ < args.origin[i] /\ args.origin[i] < WorldMaxQ

\* C18: for every ray whose origin is strictly inside the world box and
\* whose direction is non-zero on at least one axis the resolver reports a
\* hit with t_enter <= 0 <= t_exit, also when one or two components of the
\* direction are zero.
C18_InsideHits ==
    (/\ Encoded
     /\ StrictlyInside
     /\ \E i \in 1..3 : args.direction[i] # 0)
    => /\ retv.aabb.hit /\ retv.tb_aabb.hit
       /\ retv.aabb.t_enter <= 0 /\ 0 <= retv.aabb.t_exit
       /\ retv.tb_aabb.t_enter <= 0 /\ 0 <= retv.tb_aabb.t_exit

\* A ray from inside the box along one axis only: the two parallel axes
\* were skipped and the distances are those of the third.
C18_Witness ==
    /\ Encoded
    /\ StrictlyInside
    /\ args.direction[1] = 0 /\ args.direction[2] = 0
    /\ args.direction[3] = TScale
    /\ retv.aabb.hit /\ retv.tb_aabb.hit
    /\ NegInf < retv.aabb.t_enter /\ retv.aabb.t_enter < 0
    /\ 0 < retv.aabb.t_exit /\ retv.aabb.t_exit < PosInf

\* C19, as claimed: the conversion returns a code in [0, 2^W - 1] for
\* every input and never raises: 2^W - 1 for NaN, an infinity or a negative
\* value, and 2^W - 1 for a finite non-negative value whose scaled value
\* exceeds 2^W - 1.
C19_SaturatesNeverRaises ==
    Converted =>
       LET max_u == Pow2(args.wbits) - 1
           over == \/ args.x.kind = "max"
                   \/ args.x.kind = "fin" /\ args.x.q > max_u * Sub
           ok(r) == /\ r.raised = ""
                    /\ r.val \in 0..max_u
                    /\ ((~IsFinite(args.x)) \/ IsNegative(args.x))
                          => r.val = max_u
       IN  /\ ok(retv.fixed)
           /\ ok(retv.tb_fixed)
           /\ (IsFinite(args.x) /\ ~IsNegative(args.x) /\ over)
                 => retv.fixed.val = max_u /\ retv.tb_fixed.val = max_u

\* C20: the codes round-trip: for every code k in [0, 2^W - 1], to_fixed
\* and _to_fixed_nonneg of the value k / 2^F return k.
C20_RoundTrip ==
    (/\ Converted
     /\ args.x.kind = "fin"
     /\ args.x.q % Sub = 0
     /\ args.x.q \div Sub \in 0..(Pow2(args.wbits) - 1))
    => /\ retv.fixed = FxReturn(args.x.q \div Sub)
       /\ retv.tb_fixed = FxReturn(args.x.q \div Sub)

\* The largest code of the widest format with fraction bits was encoded.
C20_Witness ==
    /\ Converted
    /\ args.wbits = MaxW /\ args.frac = MaxFrac
    /\ args.x = Float("fin", (Pow2(MaxW) - 1) * Sub)
    /\ retv.fixed.val = Pow2(MaxW) - 1
    /\ retv.tb_fixed.val = Pow2(MaxW) - 1

\* C25, as claimed: _to_fixed_nonneg matches to_fixed: for every value and
\* every format the two return the same code.
C25_SameCode == Converted => retv.tb_fixed = retv.fixed

\* The scaled value of the call is at or above one half past an integer,
\* and to_fixed rounds it up: above the half, or on it with an odd integer
\* below.
RoundsUp ==
    LET f == args.x.q \div Sub
        r == args.x.q % Sub
    IN  2 * r > Sub \/ (2 * r = Sub /\ f % 2 = 1)

\* C25, amended: _to_fixed_nonneg matches to_fixed in its saturation: for
\* NaN, an infinity, a negative value and a scaled value of 2^W - 1 or more
\* the two return 2^W - 1, and they raise on the same inputs. For the other
\* inputs _to_fixed_nonneg truncates the scaled value where to_fixed rounds
\* it to the nearest integer, a tie to the even one: the two codes are the
\* same when to_fixed rounds down, and to_fixed returns one more when it
\* rounds up.
C25_SameUpToRounding ==
    Converted =>
       LET max_u == Pow2(args.wbits) - 1
           x == args.x
       IN  /\ retv.tb_fixed.raised = retv.fixed.raised
           /\ ((~IsFinite(x)) \/ IsNegative(x) \/ x.kind = "max")
                 => retv.tb_fixed = retv.fixed
           /\ (x.kind = "fin" /\ x.q >= max_u * Sub)
                 => /\ retv.fixed = FxReturn(max_u)
                    /\ retv.tb_fixed = FxReturn(max_u)
           /\ (x.kind = "fin" /\ x.q >= 0 /\ x.q < max_u * Sub)
                 => /\ retv.tb_fixed = FxReturn(x.q \div Sub)
                    /\ retv.fixed.val =
                          retv.tb_fixed.val + (IF RoundsUp THEN 1 ELSE 0)

\* A value three quarters past a code: _to_fixed_nonneg returned the code
\* and to_fixed the next one.
C25_Witness ==
    /\ Converted
    /\ args.x = Float("fin", Sub + 3) /\ args.wbits = MaxW
    /\ retv.tb_fixed = FxReturn(1)
    /\ retv.fixed = FxReturn(2)

\* The start voxel of a job is in the grid.
StartInGrid(j) ==
    j.ix0 \in 0..GridMax /\ j.iy0 \in 0..GridMax /\ j.iz0 \in 0..GridMax

\* C27: every job with valid = 1 has a start voxel with 0 <= ix0, iy0, iz0
\* <= 31, for every origin and direction the resolver accepts: an origin
\* outside the box, inside it, or on a face, an edge or a corner, also when
\* the ray enters through an upper face or leaves from one and the advanced
\* point reaches 32.
C27_StartVoxelInGrid ==
    Encoded =>
       /\ retv.job.valid = 1 => StartInGrid(retv.job)
       /\ JobValid(retv.tb_job) => StartInGrid(retv.tb_job)

\* A ray from the upper corner of the box that points out of it on every
\* axis: the advanced point is beyond 32 on each and the start voxel is
\* (31, 31, 31).
C27_Witness ==
    /\ Encoded
    /\ args.origin = <<WorldMaxQ, WorldMaxQ, WorldMaxQ>>
    /\ args.direction = <<TScale, TScale, TScale>>
    /\ retv.job.valid = 1 /\ JobValid(retv.tb_job)
    /\ retv.job.ix0 = GridMax /\ retv.job.iy0 = GridMax
    /\ retv.job.iz0 = GridMax
    /\ retv.tb_job.ix0 = GridMax /\ retv.tb_job.iy0 = GridMax
    /\ retv.tb_job.iz0 = GridMax

\* The step direction a face id stands for: 0 is +X, 1 is -X, 2 is +Y, 3 is
\* -Y, 4 is +Z, 5 is -Z.
StepDir(f) ==
    [i \in 1..3 |->
        IF i = (f \div 2) + 1 THEN (IF f % 2 = 0 THEN 1 ELSE 0 - 1) ELSE 0]

LookedUp == retv.set /\ args.fn = "normal"

C28_WitnessClamped ==
    /\ LookedUp
    /\ args.fid = 7
    /\ retv.fid = 5 /\ retv.normal = <<0, 0, 1>>

Parsed == retv.set /\ args.fn = "parse"

IsInteger(field) == PyInt(field).ok

\* The fields a job is made of, as integers; the testbench keeps valid,
\* the driver does not.
SameFields(j, row) ==
    /\ j.px = PyInt(row[1]).v /\ j.py = PyInt(row[2]).v
    /\ j.ix0 = PyInt(row[4]).v /\ j.iy0 = PyInt(row[5]).v
    /\ j.iz0 = PyInt(row[6]).v /\ j.sx = PyInt(row[7]).v
    /\ j.sy = PyInt(row[8]).v /\ j.sz = PyInt(row[9]).v
    /\ j.next_x = PyInt(row[10]).v /\ j.next_y = PyInt(row[11]).v
    /\ j.next_z = PyInt(row[12]).v /\ j.inc_x = PyInt(row[13]).v
    /\ j.inc_y = PyInt(row[14]).v /\ j.inc_z = PyInt(row[15]).v
    /\ j.max_steps = PyInt(row[16]).v

\* The list returned is the rows kept, in file order.
ReturnsRows(kept) ==
    /\ ~retv.raised
    /\ Len(retv.jobs) = Len(kept)
    /\ \A k \in 1..Len(kept) : SameFields(retv.jobs[k], kept[k])

\* C29: the ray-job parsers never raise on a malformed row: a row with
\* fewer than 16 fields or with a non-integer field is skipped without
\* adding a job, and the list returned is exactly the well-formed rows in
\* file order, the valid = 0 ones omitted iff skip_invalid is set.
C29_WellFormedRowsOnly ==
    Parsed =>
        LET WellFormed(row) ==
                /\ Len(row) >= 16
                /\ \A i \in 1..Len(row) : IsInteger(row[i])
                /\ args.skip_invalid => PyInt(row[3]).v # 0
        IN  ReturnsRows(SelectSeq(args.rows, WellFormed))

\* The same with only the first sixteen fields of a row looked at.
C29_FirstSixteenFields ==
    Parsed =>
        LET WellFormed(row) ==
                /\ Len(row) >= 16
                /\ \A i \in 1..16 : IsInteger(row[i])
                /\ args.skip_invalid => PyInt(row[3]).v # 0
        IN  ReturnsRows(SelectSeq(args.rows, WellFormed))

-----------------------------------------------------------------------------
\* _is_shadowed_to_light (src/test_raytracer.py lines 102-156): the shadow
\* ray is encoded, the simulator is run on the job, the job is sent, and
\* the hit outputs are read. The shadow origin, the direction to the light
\* and the distance to it are the inputs; the distance is counted as
\* the values handed to the conversion are, and SHADOW_EPS_T is below one
\* Sub-th of a code of the model's format.

\* The calls: origins before the box, on its faces and inside it, direction
\* components 1.0, small (1/256), below EPS_DIR and zero; a light at the
\* shadow origin, closer to it than SHADOW_EPS_T, six voxels away, and at
\* the largest distances of the format. The ray from the lower corner along
\* the diagonal is encoded with every step cap.
Dists ==
    { Float("fin", 0), Near(0, 1), Float("fin", 6 * Pow2(JobFrac) * Sub),
      Float("fin", (Pow2(JobW) - 1) * Sub), Float("fin", Pow2(JobW) * Sub) }

ShadowCalls ==
    { [fn |-> "shadow", origin |-> <<ox, oy, 32>>,
       direction |-> <<dx, dy, dz>>, x |-> dist, wbits |-> JobW,
       frac |-> JobFrac, max_steps |-> 512, voxel |-> <<10, 10, 10>>,
       px |-> 1, py |-> 0] :
         ox \in {-10, 1, WorldMaxQ}, oy \in {WorldMinQ, 33},
         dx \in {0 - TScale, 0, TScale}, dy \in {0 - TScale, -4, 0, 4, TScale},
         dz \in {-1, 0, TScale}, dist \in Dists }
    \cup
    { [fn |-> "shadow", origin |-> <<0, 0, 0>>,
       direction |-> <<TScale, TScale, TScale>>,
       x |-> Float("fin", Pow2(JobW) * Sub), wbits |-> JobW,
       frac |-> JobFrac, max_steps |-> m, voxel |-> <<10, 10, 10>>,
       px |-> 1, py |-> 0] : m \in StepCaps }

\* Jobs that no encoder call of the model builds, handed to the simulator
\* on their own: accumulators at zero or at the largest code, increments
\* zero, one or the largest code.
FreeJobs ==
    { [valid |-> 1, ix0 |-> v[1], iy0 |-> v[2], iz0 |-> v[3],
       sx |-> s, sy |-> s, sz |-> 1,
       next_x |-> n[1], next_y |-> n[2], next_z |-> n[3],
       inc_x |-> i[1], inc_y |-> i[2], inc_z |-> i[3],
       max_steps |-> 512] :
        v \in StartVoxels, s \in {0, 1},
        n \in {0, Pow2(JobW) - 1} \X {0, Pow2(JobW) - 1} \X {0},
        i \in {0, 1, Pow2(JobW) - 1} \X {0, 1} \X {0, 1} }

\* The targets handed to the simulator with them.
TEnds == {0, 6 * Pow2(JobFrac), Pow2(JobW) - 2, Pow2(JobW) - 1}

\* The call is one of _is_shadowed_to_light.
FromEncoder == args.fn = "shadow"

ShadowInit ==
    /\ \/ /\ args \in ShadowCalls
          /\ job = InvalidJob
          /\ t_end_fx = 0
          /\ bpc = "enter"
       \/ /\ args = NoArgs
          /\ job \in FreeJobs \cup {InvalidJob}
          /\ t_end_fx \in TEnds
          /\ bpc = "call"
    /\ retv = NoOut
    /\ ix = 0 /\ iy = 0 /\ iz = 0
    /\ next_x = 0 /\ next_y = 0 /\ next_z = 0
    /\ steps = 0 /\ iter = 0
    /\ prev = NoPrev
    /\ returns = <<>>
    /\ job0 = job
    /\ SendIdle
    /\ RenderIdle
    /\ DriverIdle
    /\ LoaderIdle

\* line 122: "dist <= 1e-6".
AtLight(x) == x.kind = "fin" /\ x.q = 0 /\ x.e <= 0

\* line 138: t_end = max(0.0, dist - SHADOW_EPS_T).
TEnd(x) == IF x.q = 0 THEN Float("fin", 0) ELSE Near(x.q, 0 - 1)

\* What _is_shadowed_to_light returned: sent tells whether the job was
\* handed to _send_ray_job, ok what that call returned.
ShadowResult(shadowed, sent, ok) ==
    [set |-> TRUE, shadowed |-> shadowed, sent |-> sent, ok |-> ok]

\* lines 118-139: the early returns, the job and the target.
ShadowEnter ==
    /\ bpc = "enter"
    /\ LET j == TbMakeOptionBJob(args.origin, args.direction, args.wbits,
                                 args.frac, args.max_steps)
       IN  IF AtLight(args.x)
           THEN /\ retv' = ShadowResult(FALSE, FALSE, FALSE)
                /\ bpc' = "idle"
                /\ UNCHANGED <<job, job0, t_end_fx>>
           ELSE IF ~JobValid(j)
           THEN /\ retv' = ShadowResult(FALSE, FALSE, FALSE)
                /\ bpc' = "idle"
                /\ job' = j /\ job0' = j
                /\ UNCHANGED t_end_fx
           ELSE /\ job' = j /\ job0' = j
                /\ t_end_fx' = ToFixedNonneg(TEnd(args.x), args.wbits,
                                             args.frac).val
                /\ bpc' = "call"
                /\ UNCHANGED retv
    /\ UNCHANGED <<ix, iy, iz, next_x, next_y, next_z, steps, iter, prev,
                   returns, args, svars, rvars, dvars, lvars>>

\* line 376 and lines 140-145: return int(steps), stored as the job's
\* max_steps with px and py, and the job handed to _send_ray_job. A job
\* handed to the simulator on its own is not sent.
StoreBudget ==
    /\ bpc = "ret"
    /\ returns' = Append(returns, steps)
    /\ IF FromEncoder
       THEN /\ job' = [f \in DOMAIN job \cup {"px", "py"} |->
                          IF f = "px" THEN args.px
                          ELSE IF f = "py" THEN args.py
                          ELSE IF f = "max_steps" THEN steps
                          ELSE job[f]]
            /\ snd' = SendStart(job', TimeoutCycles)
            /\ bpc' = "send"
       ELSE /\ job' = [job EXCEPT !.max_steps = steps]
            /\ bpc' = "idle"
            /\ UNCHANGED snd
    /\ UNCHANGED <<t_end_fx, ix, iy, iz, next_x, next_y, next_z, steps,
                   iter, prev, job0, dut, sret, calls, rvars, ovars>>

\* The step r of the running call of _send_ray_job; lines 146-156 when it
\* returns.
ShadowResume(r) ==
    /\ dut' = r.dut
    /\ IF r.ret = "no"
       THEN /\ snd' = r.snd
            /\ UNCHANGED <<retv, bpc>>
       ELSE /\ snd' = NoCall
            /\ retv' = ShadowResult(Shadowed(r.ret, r.dut, args.voxel),
                                    TRUE, r.ret = "true")
            /\ bpc' = "idle"
    /\ UNCHANGED <<job, t_end_fx, ix, iy, iz, next_x, next_y, next_z, steps,
                   iter, prev, returns, job0, sret, calls, args, rvars,
                   dvars, lvars>>

ShadowReadyEdge ==
    /\ bpc = "send"
    /\ snd.pc = "wait_ready"
    /\ \E ready \in {0, 1} : ShadowResume(ReadyStep(snd, dut, ready))

ShadowLatchEdge ==
    /\ bpc = "send"
    /\ snd.pc = "latch"
    /\ ShadowResume(LatchStep(snd, dut))

ShadowDoneEdge ==
    /\ bpc = "send"
    /\ snd.pc = "wait_done"
    /\ \E done \in {0, 1} :
          \E o \in OracleOutputs(dut, done) :
             ShadowResume(DoneStep(snd, dut, done, o))

ShadowNext ==
    \/ ShadowEnter
    \/ BudgetCall
    \/ BudgetIter
    \/ StoreBudget
    \/ ShadowReadyEdge
    \/ ShadowLatchEdge
    \/ ShadowDoneEdge

SpecShadow == ShadowInit /\ [][ShadowNext]_vars

-----------------------------------------------------------------------------
\* Properties of the shadow job, checked under SpecShadow.

\* The largest code of the format the jobs are encoded in, 2^W - 1.
MaxCode == Pow2(JobW) - 1

\* What the encoder of rays_to_scene.py builds from the same call.
SceneJob ==
    MakeOptionBJob(args.origin, args.direction, args.wbits, args.frac,
                   args.max_steps)

\* The step cap an encoder is to store for the cap it was handed.
Capped(m) == IF m < 0 THEN 0 ELSE IF m > StepCap THEN StepCap ELSE m

\* C21: every job built by the encoder or re-budgeted for a shadow ray
\* keeps max_steps in [0, 1023]: both encoders clamp the step cap they are
\* handed, negative or above 1023, into that range, every value the
\* simulator returns is an integer in [0, 1023], it returns 0 for a job with
\* valid = 0, and the value stored in the job is the one it returned.
C21_MaxStepsInRange ==
    /\ JobValid(job) => job.max_steps \in 0..StepCap
    /\ (FromEncoder /\ JobValid(job0)) =>
          /\ job0.max_steps = Capped(args.max_steps)
          /\ SceneJob.max_steps = Capped(args.max_steps)
    /\ \A k \in DOMAIN returns : returns[k] \in 0..StepCap
    /\ (~JobValid(job)) => \A k \in DOMAIN returns : returns[k] = 0
    /\ (bpc = "idle" /\ JobValid(job)) => job.max_steps = returns[1]

\* A job encoded with a negative step cap got 0, and the simulator's count
\* replaced it.
C21_Witness ==
    /\ FromEncoder /\ args.max_steps < 0
    /\ JobValid(job0) /\ job0.max_steps = 0
    /\ bpc = "idle"
    /\ returns # <<>> /\ returns[1] > 0 /\ job.max_steps = returns[1]

\* C22, as claimed: while the simulator runs on a job of the encoder with a
\* target of at most 2^W - 1, every accumulator that goes into another
\* comparison is at most 2^W - 1.
C22_NoWrap ==
    (FromEncoder /\ bpc = "loop" /\ t_end_fx <= MaxCode)
    => next_x <= MaxCode /\ next_y <= MaxCode /\ next_z <= MaxCode

MostSteps == 3 * GridMax + 1

\* C24: for every job whose start voxel is in [0, 31]^3, whatever its
\* accumulators and increments (zero increments too), the simulator
\* returns at most 94, and its loop stops because the target was reached or
\* the voxel left the grid, never because of the cap of 1023 steps or the
\* ceiling of 2048 iterations.
C24_AtMost94 ==
    (JobValid(job0) /\ InGrid(job0.ix0, job0.iy0, job0.iz0)) =>
       /\ steps <= MostSteps /\ iter <= MostSteps + 1
       /\ \A k \in DOMAIN returns : returns[k] <= MostSteps
       /\ bpc = "ret" =>
             /\ steps < StepCap /\ iter < IterCeiling
             /\ \/ TargetReached(MinNext(next_x, next_y, next_z), t_end_fx)
                \/ OutOfGrid(ix, iy, iz)

\* The simulator walked the diagonal from the lower corner and returned 94.
C24_Witness ==
    /\ FromEncoder /\ JobValid(job0)
    /\ job0.ix0 = 0 /\ job0.iy0 = 0 /\ job0.iz0 = 0
    /\ returns = <<MostSteps>>
    /\ OutOfGrid(ix, iy, iz)

\* The same with increments of zero.
C24_WitnessZeroInc ==
    /\ ~FromEncoder /\ JobValid(job0)
    /\ job0.inc_x = 0 /\ job0.inc_y = 0 /\ job0.inc_z = 0
    /\ returns # <<>> /\ returns[1] = GridMax + 1

\* _is_shadowed_to_light returned.
ShadowDone == FromEncoder /\ retv.set

\* C26: _is_shadowed_to_light reports occlusion exactly when the shadow
\* round-trip completes (ray_done was seen) with ray_hit set and the hit
\* voxel differs from the primary voxel in at least one coordinate. A hit
\* on the originating voxel, a miss, a round-trip that timed out, a shadow
\* job with valid = 0 and a light within 1e-6 of the shadow origin all give
\* "not shadowed", and in the last two cases no job is submitted.
C26_OccludedIffOtherVoxelHit ==
    ShadowDone =>
       /\ retv.shadowed <=>
             /\ retv.sent
             /\ dut.ray_done = 1
             /\ dut.ray_hit = 1
             /\ \E i \in 1..3 : dut.hit_voxel[i] # args.voxel[i]
       /\ (AtLight(args.x) \/ ~JobValid(job0)) =>
             /\ ~retv.shadowed
             /\ ~retv.sent
             /\ dut = DutAfterReset
       /\ retv.sent <=> (~AtLight(args.x) /\ JobValid(job0))

\* The round-trip completed with a hit on another voxel: occluded.
C26_Witness ==
    /\ ShadowDone
    /\ retv.shadowed
    /\ dut.ray_done = 1 /\ dut.ray_hit = 1
    /\ dut.hit_voxel = <<10, GridMax, 10>> /\ args.voxel = <<10, 10, 10>>

\* The round-trip completed with a hit on the primary voxel.
C26_WitnessSelfHit ==
    /\ ShadowDone
    /\ ~retv.shadowed
    /\ dut.ray_done = 1 /\ dut.ray_hit = 1 /\ dut.hit_voxel = args.voxel

\* The round-trip completed with a miss.
C26_WitnessMiss ==
    /\ ShadowDone
    /\ ~retv.shadowed
    /\ dut.ray_done = 1 /\ dut.ray_hit = 0

\* The round-trip timed out while the outputs showed a hit on another
\* voxel.
C26_WitnessTimeout ==
    /\ ShadowDone
    /\ ~retv.shadowed /\ retv.sent
    /\ dut.ray_done = 0 /\ dut.ray_hit = 1 /\ dut.hit_voxel # args.voxel

\* The encoder rejected the shadow ray.
C26_WitnessInvalid ==
    /\ ShadowDone
    /\ ~AtLight(args.x) /\ ~JobValid(job0)
    /\ ~retv.shadowed /\ ~retv.sent

\* The light is at the shadow origin.
C26_WitnessAtLight ==
    /\ ShadowDone
    /\ AtLight(args.x)
    /\ ~retv.shadowed /\ ~retv.sent

-----------------------------------------------------------------------------
\* VoxelLoader (src/voxel_loader.py), one action per clock edge the
\* coroutine awaits.

\* The lines of a voxel file, each the sequence of its fields: "7 1" and
\* "3 0", an empty line, a line of one field, a line whose first field is
\* no integer, and a line of three fields.
LoadLines ==
    { <<"7", "1">>, <<"3", "0">>, <<>>, <<"1">>, <<"0x3", "1">>,
      <<"7", "1", "1">> }

\* "addr bit" (format_type 0): int(parts[0]) and int(parts[1]).
AddrBit(parts) ==
    IF PyInt(parts[1]).ok /\ PyInt(parts[2]).ok
    THEN [ok |-> TRUE, addr |-> PyInt(parts[1]).v, bit |-> PyInt(parts[2]).v]
    ELSE [ok |-> FALSE, exc |-> "ValueError"]

\* "bit" (format_type 1): int(line.strip()), the whole line one literal.
BitOnly(parts) ==
    IF Len(parts) = 1 /\ PyInt(parts[1]).ok
    THEN [ok |-> TRUE, bit |-> PyInt(parts[1]).v]
    ELSE [ok |-> FALSE, exc |-> "ValueError"]

\* The arrays handed to load_voxels_from_array: a cube of side shape, its
\* non-zero elements.
VoxelArrays ==
    { [shape |-> 1, solid |-> {<<0, 0, 0>>}],
      [shape |-> 2, solid |-> {<<0, 0, 0>>, <<1, 0, 1>>}] }

\* The calls made.
LoadCalls ==
    { [NoLoad EXCEPT !.pc = "call", !.fn = "file", !.format_type = t,
                     !.lines = f] :
        t \in {0, 1},
        f \in UNION { [1..n -> LoadLines] : n \in 0..MaxLoadLines } }
    \cup
    { [NoLoad EXCEPT !.pc = "call", !.fn = "file", !.format_type = t,
                     !.missing = TRUE] : t \in {0, 1} }
    \cup
    { [NoLoad EXCEPT !.pc = "call", !.fn = "array", !.voxels = v,
                     !.grid_size = g] :
        v \in VoxelArrays, g \in 0..MaxGrid }

\* lines 56-68: entry i of the ZYX iteration, its address and its bit.
ArrayEntry(c) ==
    LET g == c.grid_size
        x == c.i % g
        y == (c.i \div g) % g
        z == c.i \div (g * g)
    IN  [addr |-> (z * 1024) + (y * 32) + x,
         bit |-> IF x < c.voxels.shape /\ y < c.voxels.shape
                    /\ z < c.voxels.shape
                 THEN (IF <<x, y, z>> \in c.voxels.solid THEN 1 ELSE 0)
                 ELSE 0]

\* lines 120-122: the next line of two fields at or after line i, counted
\* from 0; the number of lines if there is none.
NextPair(c) ==
    IF \E k \in (c.i + 1)..Len(c.lines) : Len(c.lines[k]) = 2
    THEN (CHOOSE k \in (c.i + 1)..Len(c.lines) :
             /\ Len(c.lines[k]) = 2
             /\ \A m \in (c.i + 1)..(k - 1) : Len(c.lines[m]) # 2) - 1
    ELSE Len(c.lines)

\* lines 71-73, 126-128, 145-147: the three writes of an entry, then the
\* await of line 76, 130 or 149.
Drive(c, f, addr, bit) ==
    [ldr |-> [c EXCEPT !.pc = "wait"],
     lif |-> [f EXCEPT !.load_addr = addr, !.load_data = bit,
                       !.load_valid = 1]]

\* lines 90-91, 165-166: the loop is over; valid is deasserted and an edge
\* awaited.
Deassert(c, f) ==
    [ldr |-> [c EXCEPT !.pc = "deassert"],
     lif |-> [f EXCEPT !.load_valid = 0]]

\* An exception leaves the coroutine: nothing is written any more.
LoadRaise(c, f, exc) ==
    [ldr |-> [c EXCEPT !.pc = "raised", !.exc = exc], lif |-> f]

\* The coroutine from the top of its loop, at entry c.i, to its next await
\* or to the exception that ends it.
LoadLoop(c, f) ==
    IF c.fn = "array"
    THEN IF c.i < c.grid_size * c.grid_size * c.grid_size
         THEN Drive(c, f, ArrayEntry(c).addr, ArrayEntry(c).bit)
         ELSE Deassert(c, f)
    ELSE IF c.format_type = 0
    THEN LET k == NextPair(c)
             at == [c EXCEPT !.i = k]
         IN  IF k >= Len(c.lines) THEN Deassert(at, f)
             ELSE IF ~AddrBit(c.lines[k + 1]).ok
             THEN LoadRaise(at, f, AddrBit(c.lines[k + 1]).exc)
             ELSE Drive(at, f, AddrBit(c.lines[k + 1]).addr,
                        AddrBit(c.lines[k + 1]).bit)
    ELSE IF c.i >= Len(c.lines) THEN Deassert(c, f)
         ELSE IF ~BitOnly(c.lines[c.i + 1]).ok
         THEN LoadRaise(c, f, BitOnly(c.lines[c.i + 1]).exc)
         ELSE Drive(c, f, c.i, BitOnly(c.lines[c.i + 1]).bit)

LoaderWrite(r) ==
    /\ ldr' = r.ldr
    /\ lif' = r.lif
    /\ UNCHANGED <<bvars, svars, rvars, dvars, gvars>>

\* lines 50-51 and 111-112: load_mode is set and an edge awaited.
LoadEnter ==
    /\ ldr.pc = "call"
    /\ LoaderWrite([ldr |-> [ldr EXCEPT !.pc = "entered"],
                    lif |-> [lif EXCEPT !.load_mode = 1]])

\* The edge of line 51 or 112, then lines 53-73 or 114-128: open() raises
\* FileNotFoundError, which lines 160-162 log and raise again, or the loop
\* starts.
LoadFirstEdge ==
    /\ ldr.pc = "entered"
    /\ LoaderWrite(IF ldr.fn = "file" /\ ldr.missing
                   THEN LoadRaise(ldr, lif, "FileNotFoundError")
                   ELSE LoadLoop(ldr, lif))

\* The edge of line 76, 130 or 149 and the ReadOnly after it: load_ready
\* is the DUT's; lines 80-81, 133-134, 152-155, then the loop again.
LoadEdge ==
    /\ ldr.pc = "wait"
    /\ \E ready \in {0, 1} :
          LoaderWrite(
              LoadLoop([ldr EXCEPT !.i = @ + 1, !.driven = @ + 1,
                                  !.voxels_loaded = @ + ready],
                      [lif EXCEPT !.load_ready = ready]))

\* The edge of line 91 or 166, then line 94 or 169.
LoadDeassertEdge ==
    /\ ldr.pc = "deassert"
    /\ LoaderWrite([ldr |-> [ldr EXCEPT !.pc = "exit"],
                    lif |-> [lif EXCEPT !.load_mode = 0]])

\* The edge of line 95 or 170, then the return.
LoadExitEdge ==
    /\ ldr.pc = "exit"
    /\ LoaderWrite([ldr |-> [ldr EXCEPT !.pc = "done",
                                        !.ret = ldr.voxels_loaded],
                    lif |-> lif])

LoaderInit ==
    /\ SendIdle
    /\ RenderIdle
    /\ BudgetIdle
    /\ DriverIdle
    /\ EncoderIdle
    /\ lif = LoaderSignals
    /\ ldr \in LoadCalls

LoaderNext ==
    \/ LoadEnter
    \/ LoadFirstEdge
    \/ LoadEdge
    \/ LoadDeassertEdge
    \/ LoadExitEdge

SpecLoader == LoaderInit /\ [][LoaderNext]_vars

\* The call is over: it returned, or an exception left it.
LoadFinished == ldr.pc \in {"done", "raised"}

\* C30: VoxelLoader always leaves the load interface idle: load_valid is
\* never asserted without load_mode, whenever the call has finished, by
\* returning or by raising, load_valid and load_mode are both 0, and the
\* count returned does not exceed the number of entries driven.
C30_LeavesInterfaceIdle ==
    /\ lif.load_valid = 1 => lif.load_mode = 1
    /\ LoadFinished => lif.load_valid = 0 /\ lif.load_mode = 0
    /\ ldr.pc = "done" => ldr.ret <= ldr.driven

\* The same for the calls that return.
C30_ReturnLeavesIdle ==
    /\ lif.load_valid = 1 => lif.load_mode = 1
    /\ ldr.pc = "done" => lif.load_valid = 0 /\ lif.load_mode = 0
    /\ ldr.pc = "done" => ldr.ret <= ldr.driven

\* A call raised on its second line with the first one still driven.
C30_RaisedWhileDriving ==
    /\ ldr.pc = "raised"
    /\ ldr.exc = "ValueError"
    /\ lif.load_valid = 1 /\ lif.load_mode = 1

=============================================================================
